---- MODULE Spec2Model ----
(***************************************************************************)
(* A model of the three programs of web-scraper-go:                        *)
(*   - the WebCrawler (crawler.go), a synchronous link-following crawler;  *)
(*   - the advanced Scraper (advanced_scraper.go), two asynchronous        *)
(*     collectors for listing and detail pages;                            *)
(*   - the basic scraper (main.go), a synchronous paginating scraper;      *)
(* of the goroutines of its tests on the accessors of the WebCrawler and   *)
(* the Scraper (program "access"), and of the callers of main.go's         *)
(* cleanPrice and exportToCSV (programs "price" and "export").             *)
(* One behaviour runs one program, chosen in Init (variable program).      *)
(*                                                                         *)
(* A URL or an href is a sequence of lexical tokens of the string: a       *)
(* scheme token ends in ":", a host token starts with "//", a path token   *)
(* starts with "/", and "#" starts the fragment.  The string operations    *)
(* of the code (HasPrefix, url.Parse, ResolveReference, Fragment = "",     *)
(* String) are operators on these sequences.                               *)
(***************************************************************************)
EXTENDS Integers, Sequences, FiniteSets, Bags, TLC

(***************************************************************************)
(* Bounds of the model.                                                    *)
(***************************************************************************)
\* Largest maxPages value a WebCrawler is constructed with.
MaxPagesBound == 4

\* Number of goroutines that may call Crawl on one WebCrawler concurrently.
MaxCallers == 2

\* The retry bound ("maxAttempts") the specification speaks of; the code
\* defines none.
MaxAttempts == 2

\* Number of 429/503 answers the server gives in one run of the Scraper.
MaxTransient == MaxAttempts + 1

\* Number of other failures (404, network errors) in one run of the Scraper.
MaxPermanent == 1

\* Goroutines the concurrency test starts.
MaxGoroutines == 3

\* Number of 429/503 answers in a run of the Scraper that is to terminate.
MaxCalmTransient == 1

\* Longest string handed to cleanPrice.
MaxPriceLen == 4

\* Number of times cleanPrice is applied to one string.
MaxCleanings == 2

\* Longest products slice handed to exportToCSV by a caller other than main.
MaxProducts == 3

\* Rows the csv.Writer's buffer holds before it writes them to the file.
BufferRows == 2

(***************************************************************************)
(* Strings: URLs and hrefs as token sequences.                             *)
(***************************************************************************)
Schemes == {"http:", "https:", "javascript:", "mailto:"}

Hosts == {"//site", "//other"}

\* strings.HasPrefix(link, prefix), for a one-token prefix.
HasPrefix(link, tok) == Len(link) > 0 /\ link[1] = tok

HasScheme(u) == Len(u) > 0 /\ u[1] \in Schemes

\* url.URL.Scheme of a parsed URL ("" when the reference has none).
SchemeOf(u) == IF HasScheme(u) THEN u[1] ELSE ""

\* url.URL.Hostname(): the host token, "" for an opaque URL such as mailto:.
HostOf(u) ==
    IF HasScheme(u) /\ Len(u) > 1 /\ u[2] \in Hosts THEN u[2]
    ELSE IF Len(u) > 0 /\ u[1] \in Hosts THEN u[1]
    ELSE ""

\* Index of the first "#" of a string, 0 when it has none.
FragmentIndex(u) ==
    IF \E i \in 1..Len(u) : u[i] = "#"
    THEN CHOOSE i \in 1..Len(u) : u[i] = "#" /\ \A j \in 1..(i - 1) : u[j] # "#"
    ELSE 0

\* A variant that prints the URL with its fragment.
KeepFragment(u) == u

\* parsedURL.Fragment = ""; parsedURL.String()
StripFragment(u) ==
    IF FragmentIndex(u) = 0 THEN u ELSE SubSeq(u, 1, FragmentIndex(u) - 1)

\* url.URL.Parse(ref) on the base URL: RFC 3986 reference resolution for
\* absolute references, scheme-relative references and rooted paths.
ResolveReference(base, ref) ==
    IF HasScheme(ref) THEN ref
    ELSE IF Len(ref) > 0 /\ ref[1] \in Hosts THEN <<SchemeOf(base)>> \o ref
    ELSE IF Len(ref) > 0 /\ ref[1] # "#"
         THEN <<SchemeOf(base), HostOf(base)>> \o ref
    ELSE StripFragment(base) \o ref

\* colly Request.AbsoluteURL: "" for a pure fragment, else the resolved URL
\* without its fragment.
AbsoluteURL(base, u) ==
    IF HasPrefix(u, "#") THEN <<>>
    ELSE StripFragment(ResolveReference(base, u))

(***************************************************************************)
(* The sites served to the WebCrawler.                                     *)
(***************************************************************************)
Page(p) == <<"http:", "//site", p>>

Root == Page("/")

EmptyLink == <<>>

AnchorLink == <<"#", "anchor">>

JsLink == <<"javascript:", "void(0)">>

MailLink == <<"mailto:", "a@b">>

OffSiteLink == <<"http:", "//other", "/x">>

\* Site 1: every link shape of TestCrawlerLinkFiltering and
\* TestCrawlerURLNormalization, and a link back to the start page.
\* Site 2: a start page with five distinct links.
\* Site 3: a chain of pages deeper than the depth limit.
SiteLinks(s, u) ==
    CASE s = 1 ->
            (CASE u = Root -> << EmptyLink, AnchorLink, JsLink, MailLink,
                                <<"/p1", "#", "a">>, <<"/p1", "#", "b">>,
                                OffSiteLink >>
               [] u = Page("/p1") -> << <<"/">> >>
               [] OTHER -> << >>)
      [] s = 2 ->
            (CASE u = Root -> << <<"/p1">>, <<"/p2">>, <<"/p3">>, <<"/p4">>,
                                <<"/p5">> >>
               [] u = Page("/p1") -> << <<"/p2">> >>
               [] OTHER -> << >>)
      [] OTHER ->
            (CASE u = Root -> << <<"/p1">> >>
               [] u = Page("/p1") -> << <<"/p2">>, <<"/p1", "#", "top">> >>
               [] u = Page("/p2") -> << <<"/p3">> >>
               [] u = Page("/p3") -> << <<"/p4">> >>
               [] OTHER -> << >>)

\* Every normalized URL a crawl of these sites can name.
CrawlURLs ==
    {Root, MailLink, OffSiteLink} \cup
    {Page(p) : p \in {"/p1", "/p2", "/p3", "/p4", "/p5"}}

(***************************************************************************)
(* The shops served to the Scraper and to the basic scraper: listing pages *)
(* with li.product elements and an a.next.page-numbers link, and detail    *)
(* pages with a product title.                                             *)
(***************************************************************************)
Item(h, n) == [href |-> h, name |-> n]

\* The li.product elements of a listing page, in document order: the href of
\* the element's product link and the text of its title.
\* Shop 1: a duplicate product, a product without link, a pagination cycle.
\* Shop 2: a relative product link and a pagination chain deeper than the
\* depth limits.
ListingItems(s, u) ==
    IF s = 1 THEN
        CASE u = Page("/list1") -> << Item(Page("/d1"), "Widget"), Item(<< >>, ""),
                                      Item(Page("/d2"), "Gadget") >>
          [] u = Page("/list2") -> << Item(Page("/d1"), "Widget"),
                                      Item(Page("/d3"), "Gizmo") >>
          [] OTHER -> << >>
    ELSE
        CASE u = Page("/list1") -> << Item(<<"/d3">>, "Relative") >>
          [] u = Page("/list3") -> << Item(Page("/d2"), "Gadget") >>
          [] OTHER -> << >>

\* The href of each a.next.page-numbers element of a listing page.
ListingNext(s, u) ==
    IF s = 1 THEN
        CASE u = Page("/list1") -> << <<"/list2">> >>
          [] u = Page("/list2") -> << <<"/list1">> >>
          [] OTHER -> << >>
    ELSE
        CASE u = Page("/list1") -> << <<"/list2">> >>
          [] u = Page("/list2") -> << <<"/list3">> >>
          [] u = Page("/list3") -> << <<"/list4">> >>
          [] u = Page("/list4") -> << << >> >>
          [] OTHER -> << >>

\* The h1.product_title text of a detail page.
DetailName(s, u) ==
    CASE u = Page("/d1") -> "Widget"
      [] u = Page("/d2") -> IF s = 1 THEN "" ELSE "Gadget"
      [] u = Page("/d3") -> "Gizmo"
      [] OTHER -> ""

ListURLs == {Page(p) : p \in {"/list1", "/list2", "/list3", "/list4"}}

\* The product URLs of the listing pages, as the href gives them.
ProductURLs == {Page("/d1"), Page("/d2"), Page("/d3"), <<"/d3">>, << >>}

(***************************************************************************)
(* State.                                                                  *)
(***************************************************************************)
VARIABLES
    program,       \* which program this behaviour runs
    site,          \* the site the server serves
    store,         \* the collector's visited-request store (colly)
    \* WebCrawler
    maxPages,      \* WebCrawler.maxPages
    pagesVisited,  \* WebCrawler.pagesVisited
    visitedURLs,   \* WebCrawler.visitedURLs: the keys mapped to true
    foundLinks,    \* WebCrawler.foundLinks
    mu,            \* WebCrawler.mu: the goroutine that holds it, 0 when unlocked
    callers,       \* number of goroutines that call Crawl
    thr,           \* per calling goroutine: position, call stack, pending Visit
    \* history of the WebCrawler run
    discovered,    \* normalized URLs some link-handler invocation computed
    handled,       \* per URL, the invocations that reached the membership test
    visitCalls,    \* per URL, the e.Request.Visit calls of the link handler
    dispatched,    \* per URL, the requests dispatched (OnRequest invocations)
    \* Scraper
    startURL,      \* the argument of Scrape
    spc,           \* position of the goroutine that called Scrape
    wgList,        \* collector's WaitGroup counter
    wgDetail,      \* detailCollector's WaitGroup counter
    fetches,       \* the fetch goroutines alive, a bag of records
    visited,       \* Scraper.visited: the keys mapped to true
    products,      \* Scraper.products
    smu,           \* Scraper.mu: its holder, 0 when unlocked
    \* history of the Scraper run
    transients,    \* 429/503 answers given so far
    retries,       \* per listing URL, the r.Request.Retry() calls
    failures,      \* the failed fetches: collector, URL, status, retried or not
    detailVisits,  \* per product URL, the detailCollector.Visit calls
    \* basic scraper (main)
    bpc,           \* position of main
    bstack,        \* call stack of nested fetches
    bproducts,     \* main's products slice
    bfetched,      \* history: requests dispatched
    \* the tests' goroutines on the accessors
    workers,       \* numGoroutines of the concurrency test
    gor,           \* per goroutine: position, the slice its append read
    got,           \* the slice the test's last GetProducts returned
    gotLinks,      \* the slice the test's last GetFoundLinks returned
    raw,           \* the string first handed to cleanPrice
    price,         \* the string as it is now
    cleaned,       \* the calls of cleanPrice made on it
    epc,           \* exportToCSV: the position of the call
    eproducts,     \* exportToCSV: the products argument
    eidx,          \* exportToCSV: the index of the range loop
    ebuf,          \* the rows in the csv.Writer's buffer
    werr,          \* the csv.Writer's recorded write error
    efile,         \* the file named by filename
    eret           \* exportToCSV: the error returned

crawlerVars ==
    <<maxPages, pagesVisited, visitedURLs, foundLinks, mu, callers, thr,
      discovered, handled, visitCalls, dispatched>>

scraperVars ==
    <<startURL, spc, wgList, wgDetail, fetches, visited, products, smu,
      transients, retries, failures, detailVisits>>

priceVars == <<raw, price, cleaned>>

exportVars == <<epc, eproducts, eidx, ebuf, werr, efile, eret>>

basicVars == <<bpc, bstack, bproducts, bfetched, priceVars, exportVars>>

accessVars == <<workers, gor, got, gotLinks>>

vars ==
    <<program, site, store, crawlerVars, scraperVars, basicVars, accessVars>>

(***************************************************************************)
(* Sequence helpers.                                                       *)
(***************************************************************************)
Last(s) == s[Len(s)]

Front(s) == SubSeq(s, 1, Len(s) - 1)

\* Number of occurrences of x in the sequence s.
CountIn(s, x) == Cardinality({i \in 1..Len(s) : s[i] = x})

(***************************************************************************)
(* sync.Mutex: a mutex is the identity of its holder, 0 when unlocked.     *)
(***************************************************************************)
\* A variant of Lock that does not wait.
CanLockAlways(m) == TRUE

\* sync.Mutex.Lock returns only when the mutex is unlocked.
CanLock(m) == m = 0

(***************************************************************************)
(* colly's request checks, as configured by the three programs.            *)
(***************************************************************************)
\* colly.MaxDepth(3) of NewWebCrawler.
CrawlerMaxDepth == 3

\* colly.AllowedDomains(allowedDomains...): the domain of the served site.
AllowedDomains == {"//site"}

\* A variant of the depth check that lets one more level pass.
DepthExceededLate(maxDepth, depth) == maxDepth > 0 /\ maxDepth + 1 < depth

\* Collector.requestCheck: MaxDepth > 0 && MaxDepth < depth is ErrMaxDepth.
DepthExceeded(maxDepth, depth) == maxDepth > 0 /\ maxDepth < depth

\* Collector.isDomainAllowed on the parsed URL's host.
DomainAllowed(u) == HostOf(u) \in AllowedDomains

(***************************************************************************)
(* WebCrawler.                                                             *)
(***************************************************************************)
Threads == 1..MaxCallers

IdleThread ==
    [pc |-> "idle", stack |-> << >>, purl |-> << >>, pdepth |-> 0, res |-> "none"]

\* The frame of one fetch on a goroutine's call stack: the request's URL and
\* depth and the index of the next a[href] element to hand to the handler.
Frame(u, d) == [url |-> u, depth |-> d, idx |-> 1]

\* A Visit returned to its caller with error value err: the link handler
\* ignores it and the collector goes on with the next element; with an empty
\* stack the caller is Crawl, which returns it.
Resume(stack, err) ==
    IF stack = << >>
    THEN [pc |-> "returned", stack |-> << >>, purl |-> << >>, pdepth |-> 0,
          res |-> err]
    ELSE [pc |-> "html",
          stack |-> Front(stack) \o
                    << [Last(stack) EXCEPT !.idx = Last(stack).idx + 1] >>,
          purl |-> << >>, pdepth |-> 0, res |-> "none"]

\* A variant of the filter without the javascript test.
SkipLinkNoJavascript(link) == link = << >> \/ HasPrefix(link, "#")

\* The link handler's filter: empty links, anchors and javascript.
SkipLink(link) ==
    link = << >> \/ HasPrefix(link, "#") \/ HasPrefix(link, "javascript:")

\* The handler's normalization of an absolute URL: parse it, clear the
\* fragment, print it.
NormalizeURL(absoluteURL) == StripFragment(absoluteURL)

\* A variant of the budget check that never finds the budget exhausted.
BudgetExhaustedNever == FALSE

\* A variant of the budget check that admits one page more.
BudgetExhaustedLate == pagesVisited > maxPages

\* The handler's budget check under the mutex.
BudgetExhausted == pagesVisited >= maxPages

\* A variant of the membership test that finds no URL.
IsVisitedURLNever(u) == u \in {}

\* The handler's membership test under the mutex.
IsVisitedURL(u) == u \in visitedURLs

\* A variant of the counter that stops counting at the budget.
CountedUnderBudget(n) == IF n < maxPages THEN n + 1 ELSE n

\* A variant of the counter that does not count when the request starts.
CountedLater(n) == n

\* The OnRequest handler under the mutex: wc.pagesVisited++.
CountRequest(n) == n + 1

\* Crawl(startURL): collector.Visit(startURL), a request at depth 1.
CrawlCall(t) ==
    /\ program = "crawler"
    /\ t <= callers
    /\ thr[t].pc = "idle"
    /\ thr' = [thr EXCEPT ![t] = [@ EXCEPT !.pc = "check", !.purl = Root,
                                            !.pdepth = 1]]
    /\ UNCHANGED <<scraperVars, basicVars, accessVars>>
    /\ UNCHANGED <<program, site, store, maxPages, pagesVisited, visitedURLs,
                   foundLinks, mu, callers, discovered, handled, visitCalls,
                   dispatched>>

\* Collector.scrape, first half: requestCheck refuses an empty URL, a depth
\* beyond MaxDepth and a URL the store holds (store.IsVisited).
RequestCheck(t) ==
    /\ program = "crawler"
    /\ thr[t].pc = "check"
    /\ LET u == thr[t].purl
           d == thr[t].pdepth
       IN  thr' = [thr EXCEPT ![t] =
                IF u = << >> \/ DepthExceeded(CrawlerMaxDepth, d) \/ u \in store
                THEN Resume(thr[t].stack, "err")
                ELSE [@ EXCEPT !.pc = "mark"]]
    /\ UNCHANGED <<scraperVars, basicVars, accessVars>>
    /\ UNCHANGED <<program, site, store, maxPages, pagesVisited, visitedURLs,
                   foundLinks, mu, callers, discovered, handled, visitCalls,
                   dispatched>>

\* Collector.scrape, second half: store.Visited marks the URL, a host outside
\* the allowed domains is refused, otherwise the request is dispatched: fetch
\* runs on the caller's goroutine and OnRequest locks the mutex, increments
\* pagesVisited and unlocks.
Dispatch(t) ==
    /\ program = "crawler"
    /\ thr[t].pc = "mark"
    /\ LET u == thr[t].purl
           d == thr[t].pdepth
       IN  /\ store' = store \cup {u}
           /\ IF DomainAllowed(u)
              THEN /\ CanLock(mu)
                   /\ thr' = [thr EXCEPT ![t] =
                        [pc |-> "http", stack |-> thr[t].stack \o <<Frame(u, d)>>,
                         purl |-> << >>, pdepth |-> 0, res |-> "none"]]
                   /\ pagesVisited' = CountRequest(pagesVisited)
                   /\ dispatched' = [dispatched EXCEPT ![u] = @ + 1]
              ELSE /\ thr' = [thr EXCEPT ![t] = Resume(thr[t].stack, "err")]
                   /\ UNCHANGED <<pagesVisited, dispatched>>
    /\ UNCHANGED <<scraperVars, basicVars, accessVars>>
    /\ UNCHANGED <<program, site, maxPages, visitedURLs, foundLinks, mu,
                   callers, discovered, handled, visitCalls>>

\* The transport answers.  On an error OnError logs it and fetch returns the
\* error; on success the OnHTML handlers run over the page's links.
Respond(t) ==
    /\ program = "crawler"
    /\ thr[t].pc = "http"
    /\ \E outcome \in {"ok", "error"} :
          thr' = [thr EXCEPT ![t] =
              IF outcome = "ok" THEN [@ EXCEPT !.pc = "html"]
              ELSE Resume(Front(thr[t].stack), "err")]
    /\ UNCHANGED <<scraperVars, basicVars, accessVars>>
    /\ UNCHANGED <<program, site, store, maxPages, pagesVisited, visitedURLs,
                   foundLinks, mu, callers, discovered, handled, visitCalls,
                   dispatched>>

\* A variant of the admit path that calls Visit before it unlocks.
HeldAcrossVisit(t) == t

\* The admit path of the link handler: wc.mu.Unlock() before
\* e.Request.Visit.
ReleasedBeforeVisit(t) == 0

\* A variant of the insert that starts a new map.
MarkOnlyLatest(set, u) == {u}

\* m[u] = true on a visited map.
MarkVisited(set, u) == set \cup {u}

KeepLinks(list, u) == list

\* append(wc.foundLinks, normalizedURL).
AppendLink(list, u) == Append(list, u)

\* The OnHTML("a[href]") handler up to wc.mu.Lock(): a link that passes the
\* filter and resolves to an absolute URL is normalized and the handler takes
\* the mutex.
LinkLock(t) ==
    /\ program = "crawler"
    /\ thr[t].pc = "html"
    /\ LET f == Last(thr[t].stack)
           links == SiteLinks(site, f.url)
       IN  /\ f.idx <= Len(links)
           /\ ~SkipLink(links[f.idx])
           /\ AbsoluteURL(f.url, links[f.idx]) # << >>
    /\ CanLock(mu)
    /\ mu' = t
    /\ UNCHANGED <<scraperVars, basicVars, accessVars>>
    /\ UNCHANGED <<program, site, store, maxPages, pagesVisited, visitedURLs,
                   foundLinks, callers, thr, discovered, handled, visitCalls,
                   dispatched>>

\* The OnHTML("a[href]") handler on the next link of the page being scraped:
\* the early returns of the filter, and the critical section from the budget
\* check to the Unlock of the path taken, with the call of e.Request.Visit
\* that follows the admit path's Unlock.
LinkHandler(t) ==
    /\ program = "crawler"
    /\ thr[t].pc = "html"
    /\ LET f == Last(thr[t].stack)
           links == SiteLinks(site, f.url)
       IN  /\ f.idx <= Len(links)
           /\ LET link == links[f.idx]
                  absoluteURL == AbsoluteURL(f.url, link)
                  normalizedURL == NormalizeURL(absoluteURL)
                  skip == Resume(thr[t].stack, "none")
              IN  IF SkipLink(link) \/ absoluteURL = << >>
                  THEN /\ thr' = [thr EXCEPT ![t] = skip]
                       /\ UNCHANGED <<visitedURLs, foundLinks, mu, discovered,
                                      handled, visitCalls>>
                  ELSE /\ mu = t
                       /\ discovered' = discovered \cup {normalizedURL}
                       /\ IF BudgetExhausted
                          THEN /\ mu' = 0
                               /\ thr' = [thr EXCEPT ![t] = skip]
                               /\ UNCHANGED <<visitedURLs, foundLinks,
                                              handled, visitCalls>>
                          ELSE /\ handled' = [handled EXCEPT ![normalizedURL] = @ + 1]
                               /\ IF ~IsVisitedURL(normalizedURL)
                                  THEN /\ visitedURLs' = MarkVisited(visitedURLs, normalizedURL)
                                       /\ foundLinks' = AppendLink(foundLinks, normalizedURL)
                                       /\ mu' = ReleasedBeforeVisit(t)
                                       /\ visitCalls' = [visitCalls EXCEPT
                                                           ![normalizedURL] = @ + 1]
                                       /\ thr' = [thr EXCEPT ![t] =
                                            [@ EXCEPT !.pc = "check",
                                                      !.purl = AbsoluteURL(f.url, normalizedURL),
                                                      !.pdepth = f.depth + 1]]
                                  ELSE /\ mu' = 0
                                       /\ thr' = [thr EXCEPT ![t] = skip]
                                       /\ UNCHANGED <<visitedURLs, foundLinks,
                                                      visitCalls>>
    /\ UNCHANGED <<scraperVars, basicVars, accessVars>>
    /\ UNCHANGED <<program, site, store, maxPages, pagesVisited, callers,
                   dispatched>>

\* Every handler has run: OnScraped logs and fetch returns nil.
Scraped(t) ==
    /\ program = "crawler"
    /\ thr[t].pc = "html"
    /\ Last(thr[t].stack).idx > Len(SiteLinks(site, Last(thr[t].stack).url))
    /\ thr' = [thr EXCEPT ![t] = Resume(Front(thr[t].stack), "nil")]
    /\ UNCHANGED <<scraperVars, basicVars, accessVars>>
    /\ UNCHANGED <<program, site, store, maxPages, pagesVisited, visitedURLs,
                   foundLinks, mu, callers, discovered, handled, visitCalls,
                   dispatched>>

CrawlerNext ==
    \E t \in Threads :
        \/ CrawlCall(t)
        \/ RequestCheck(t)
        \/ Dispatch(t)
        \/ Respond(t)
        \/ LinkLock(t)
        \/ LinkHandler(t)
        \/ Scraped(t)

(***************************************************************************)
(* Scraper: an asynchronous listing collector and its clone, the detail    *)
(* collector.  The clone has a WaitGroup of its own and shares the store.  *)
(* Every fetch runs on a goroutine of its own; the goroutines alive are    *)
(* the bag fetches.                                                        *)
(***************************************************************************)
\* colly.MaxDepth(3) of NewScraper, copied by Clone.
ScraperMaxDepth == 3

Fetch(c, u, d) ==
    [coll |-> c, url |-> u, depth |-> d, pc |-> "queued", idx |-> 0]

One(f) == SetToBag({f})

\* One goroutine moves from record f to record g.
Move(f, g) == (fetches (-) One(f)) (+) One(g)

Live(c) == {f \in BagToSet(fetches) : f.coll = c}

\* A variant of Collector.scrape without the domain check.
RefusedIgnoringDomain(u, d, checkRevisit) ==
    \/ u = << >>
    \/ DepthExceeded(ScraperMaxDepth, d)
    \/ checkRevisit /\ u \in store

\* Collector.scrape refuses the request: an empty URL, a depth beyond
\* MaxDepth, a URL the store holds (when revisits are checked), or a host
\* outside the allowed domains.
Refused(u, d, checkRevisit) ==
    \/ u = << >>
    \/ DepthExceeded(ScraperMaxDepth, d)
    \/ checkRevisit /\ u \in store
    \/ ~DomainAllowed(u)

\* A variant of Collector.scrape that never marks a URL as visited.
StoreUnmarked(u, d, checkRevisit) == store

\* The store after Collector.scrape: requestCheck marks a URL it lets pass.
StoreAfter(u, d, checkRevisit) ==
    IF checkRevisit /\ u # << >> /\ ~DepthExceeded(ScraperMaxDepth, d)
    THEN store \cup {u} ELSE store

\* A variant of the first wait, on the detail collector's counter.
ListWaitOnDetail == wgDetail = 0

\* collector.Wait() returns.
ListWaitDone == wgList = 0

\* A variant of the second wait that returns at once.
DetailWaitSkipped == TRUE

\* detailCollector.Wait() returns.
DetailWaitDone == wgDetail = 0

\* A variant of the OnError test that retries every HTTP error status.
IsRetriedAnyStatus(status) == status >= 400

\* The OnError test that selects the failures to retry.
IsRetried(status) == status = 429 \/ status = 503

\* The status code of each answer of the transport; a network-level error
\* carries no status (0).
StatusOf(outcome) ==
    CASE outcome = "ok" -> 200
      [] outcome = "429" -> 429
      [] outcome = "503" -> 503
      [] outcome = "404" -> 404
      [] OTHER -> 0

Outcomes == {"ok", "429", "503", "404", "neterr"}

\* url.Parse(startURL) returns an error: a string that starts with a colon
\* has no protocol scheme.
ParseFails(u) == HasPrefix(u, ":")

\* Scrape(startURL), up to the first Wait: an unparsable URL is returned as
\* an error; otherwise collector.Visit registers the fetch (wg.Add) and
\* starts its goroutine, or refuses, and Scrape returns the refusal.
ScrapeCall ==
    /\ program = "scraper"
    /\ spc = "init"
    /\ IF ParseFails(startURL)
       THEN /\ spc' = "failed"
            /\ UNCHANGED <<store, wgList, fetches>>
       ELSE /\ store' = StoreAfter(startURL, 1, TRUE)
            /\ IF Refused(startURL, 1, TRUE)
               THEN /\ spc' = "failed"
                    /\ UNCHANGED <<wgList, fetches>>
               ELSE /\ spc' = "waitList"
                    /\ wgList' = wgList + 1
                    /\ fetches' = fetches (+) One(Fetch("list", startURL, 1))
    /\ UNCHANGED <<crawlerVars, basicVars, accessVars>>
    /\ UNCHANGED <<program, site, startURL, wgDetail, visited, products, smu,
                   transients, retries, failures, detailVisits>>

ScrapeWaitList ==
    /\ program = "scraper"
    /\ spc = "waitList"
    /\ ListWaitDone
    /\ spc' = "waitDetail"
    /\ UNCHANGED <<crawlerVars, basicVars, accessVars>>
    /\ UNCHANGED <<program, site, store, startURL, wgList, wgDetail, fetches,
                   visited, products, smu, transients, retries, failures,
                   detailVisits>>

ScrapeWaitDetail ==
    /\ program = "scraper"
    /\ spc = "waitDetail"
    /\ DetailWaitDone
    /\ spc' = "returned"
    /\ UNCHANGED <<crawlerVars, basicVars, accessVars>>
    /\ UNCHANGED <<program, site, store, startURL, wgList, wgDetail, fetches,
                   visited, products, smu, transients, retries, failures,
                   detailVisits>>

\* The WaitGroup counters after the fetch of collector c returned (the
\* deferred wg.Done).
DoneList(c) == IF c = "list" THEN wgList - 1 ELSE wgList

\* A variant in which a detail fetch that returns clears the counter.
DoneDetailAll(c) == IF c = "detail" THEN 0 ELSE wgDetail

DoneDetail(c) == IF c = "detail" THEN wgDetail - 1 ELSE wgDetail

\* Parallelism of the LimitRule given to collector.Limit.
ListParallelism == 4

\* Parallelism of the LimitRule given to detailCollector.Limit.
DetailParallelism == 2

\* The limit rules of the HTTP backend in the order of the Limit calls.  The
\* detail collector is a Clone of the listing collector and a clone shares
\* the backend, so both rules are in one list.
LimitRules ==
    << [glob |-> "*", parallelism |-> ListParallelism],
       [glob |-> "*", parallelism |-> DetailParallelism] >>

\* LimitRule.Match: the glob "*" matches every host.
GlobMatches(glob, host) == glob = "*" \/ glob = host

\* httpBackend.GetMatchingRule: the first rule that matches the host.
MatchingRule(f) ==
    LimitRules[CHOOSE i \in 1..Len(LimitRules) :
                  /\ GlobMatches(LimitRules[i].glob, HostOf(f.url))
                  /\ \A j \in 1..(i - 1) :
                        ~GlobMatches(LimitRules[j].glob, HostOf(f.url))]

\* A variant in which a fetch keeps its slot during the backoff sleep.
HoldersInBackoff(r) ==
    {g \in BagToSet(fetches) : g.pc \in {"http", "backoff"}}

\* The fetches that hold a slot of rule r: between the send on the rule's
\* channel and the receive after the response and the delay.
Holders(r) ==
    {g \in BagToSet(fetches) : g.pc = "http" /\ MatchingRule(g) = r}

SlotsHeld(r) == BagCardinality([g \in Holders(r) |-> fetches[g]])

\* httpBackend.Do: the fetch takes a slot of its rule, waiting while the
\* rule's Parallelism slots are taken, and sends the request.
AcquireSlot(f) ==
    /\ program = "scraper"
    /\ f.pc = "queued"
    /\ SlotsHeld(MatchingRule(f)) < MatchingRule(f).parallelism
    /\ fetches' = Move(f, [f EXCEPT !.pc = "http"])
    /\ UNCHANGED <<crawlerVars, basicVars, accessVars>>
    /\ UNCHANGED <<program, site, store, startURL, spc, wgList, wgDetail,
                   visited, products, smu, transients, retries, failures,
                   detailVisits>>

\* The record of a failed fetch.
Failure(f, outcome) ==
    [coll |-> f.coll, url |-> f.url, status |-> StatusOf(outcome),
     retried |-> f.coll = "list" /\ IsRetried(StatusOf(outcome))]

\* The transport answers fetch f and the slot is released.  A status of 203
\* or more, or a transport error, goes to the collector's OnError handlers.
\* The listing collector's handler sleeps before a retry of 429 and 503;
\* every other failure is logged, fetch returns the error and its deferred
\* wg.Done runs.
FetchRespond(f) ==
    /\ program = "scraper"
    /\ f.pc = "http"
    /\ \E outcome \in Outcomes :
          /\ outcome \in {"429", "503"} => transients < MaxTransient
          /\ outcome \in {"404", "neterr"} =>
                Cardinality({x \in failures : ~IsRetried(x.status)}) < MaxPermanent
          /\ transients' = IF outcome \in {"429", "503"}
                           THEN transients + 1 ELSE transients
          /\ failures' = IF outcome = "ok" THEN failures
                         ELSE failures \cup {Failure(f, outcome)}
          /\ IF outcome = "ok"
             THEN /\ fetches' = Move(f, [f EXCEPT !.pc = "html", !.idx = 1])
                  /\ UNCHANGED <<wgList, wgDetail>>
             ELSE IF f.coll = "list" /\ IsRetried(StatusOf(outcome))
             THEN /\ fetches' = Move(f, [f EXCEPT !.pc = "backoff"])
                  /\ UNCHANGED <<wgList, wgDetail>>
             ELSE /\ fetches' = fetches (-) One(f)
                  /\ wgList' = DoneList(f.coll)
                  /\ wgDetail' = DoneDetail(f.coll)
    /\ UNCHANGED <<crawlerVars, basicVars, accessVars>>
    /\ UNCHANGED <<program, site, store, startURL, spc, visited, products, smu,
                   retries, detailVisits>>

\* The listing collector's OnError handler wakes from its sleep and calls
\* r.Request.Retry(): scrape at the same depth without the revisit check.
RetryFetch(f) ==
    /\ program = "scraper"
    /\ f.pc = "backoff"
    /\ retries' = [retries EXCEPT ![f.url] = @ + 1]
    /\ IF Refused(f.url, f.depth, FALSE)
       THEN /\ fetches' = Move(f, [f EXCEPT !.pc = "exit"])
            /\ UNCHANGED wgList
       ELSE /\ wgList' = wgList + 1
            /\ fetches' = Move(f, [f EXCEPT !.pc = "exit"])
                          (+) One(Fetch("list", f.url, f.depth))
    /\ UNCHANGED <<crawlerVars, basicVars, accessVars>>
    /\ UNCHANGED <<program, site, store, startURL, spc, wgDetail, visited,
                   products, smu, transients, failures, detailVisits>>

\* A variant of the product handler's test without the visited map.
IsNewProductUnchecked(productURL) == productURL # << >>

\* The product handler's test under the mutex.
IsNewProduct(productURL) == productURL \notin visited /\ productURL # << >>

\* The OnHTML("li.product") handler up to s.mu.Lock(): the handler reads the
\* product's href and takes the mutex.
ProductLock(f) ==
    /\ program = "scraper"
    /\ f.coll = "list"
    /\ f.pc = "html"
    /\ f.idx <= Len(ListingItems(site, f.url))
    /\ CanLock(smu)
    /\ smu' = 1
    /\ fetches' = Move(f, [f EXCEPT !.pc = "locked"])
    /\ UNCHANGED <<crawlerVars, basicVars, accessVars>>
    /\ UNCHANGED <<program, site, store, startURL, spc, wgList, wgDetail,
                   visited, products, transients, retries, failures,
                   detailVisits>>

\* The OnHTML("li.product") handler on the next product of a listing page,
\* from the test under the mutex on: a new non-empty product URL is marked
\* visited, the mutex is unlocked on either path, and on the first
\* detailCollector.Visit(productURL) registers a detail fetch at depth 1.
ProductHandler(f) ==
    /\ program = "scraper"
    /\ f.coll = "list"
    /\ f.pc = "locked"
    /\ f.idx <= Len(ListingItems(site, f.url))
    /\ smu' = 0
    /\ LET productURL == ListingItems(site, f.url)[f.idx].href
           g == [f EXCEPT !.pc = "html", !.idx = f.idx + 1]
       IN  IF IsNewProduct(productURL)
           THEN /\ visited' = MarkVisited(visited, productURL)
                /\ detailVisits' = [detailVisits EXCEPT ![productURL] = @ + 1]
                /\ store' = StoreAfter(productURL, 1, TRUE)
                /\ IF Refused(productURL, 1, TRUE)
                   THEN /\ fetches' = Move(f, g)
                        /\ UNCHANGED wgDetail
                   ELSE /\ wgDetail' = wgDetail + 1
                        /\ fetches' = Move(f, g) (+) One(Fetch("detail", productURL, 1))
           ELSE /\ fetches' = Move(f, g)
                /\ UNCHANGED <<visited, store, wgDetail, detailVisits>>
    /\ UNCHANGED <<crawlerVars, basicVars, accessVars>>
    /\ UNCHANGED <<program, site, startURL, spc, wgList, products, transients,
                   retries, failures>>

\* The OnHTML("a.next.page-numbers") handlers of a listing page, after its
\* product handlers: e.Request.Visit(nextURL) registers a listing fetch one
\* level deeper.  Then OnScraped: the fetch is about to return.
PaginationHandler(f) ==
    /\ program = "scraper"
    /\ f.coll = "list"
    /\ f.pc = "html"
    /\ f.idx > Len(ListingItems(site, f.url))
    /\ LET nexts == ListingNext(site, f.url)
           k == f.idx - Len(ListingItems(site, f.url))
           g == IF k >= Len(nexts) THEN [f EXCEPT !.pc = "exit", !.idx = 0]
                ELSE [f EXCEPT !.idx = f.idx + 1]
       IN  IF k <= Len(nexts) /\ nexts[k] # << >>
           THEN LET u == AbsoluteURL(f.url, nexts[k])
                IN  /\ store' = StoreAfter(u, f.depth + 1, TRUE)
                    /\ IF Refused(u, f.depth + 1, TRUE)
                       THEN /\ fetches' = Move(f, g)
                            /\ UNCHANGED wgList
                       ELSE /\ wgList' = wgList + 1
                            /\ fetches' = Move(f, g) (+) One(Fetch("list", u, f.depth + 1))
           ELSE /\ fetches' = Move(f, g)
                /\ UNCHANGED <<store, wgList>>
    /\ UNCHANGED <<crawlerVars, basicVars, accessVars>>
    /\ UNCHANGED <<program, site, startURL, spc, wgDetail, visited, products, smu,
                   transients, retries, failures, detailVisits>>

\* A variant of the empty-data check that keeps every product.
HasAnyName(name) == TRUE

\* The empty-data check of the handlers that build a product: Name != "".
HasName(name) == name # ""

\* The OnHTML("div.product") handler of a detail page: a product with a
\* non-empty name is appended between s.mu.Lock() and s.mu.Unlock().  Then
\* OnScraped, fetch returns and its deferred wg.Done runs.
DetailHandler(f) ==
    /\ program = "scraper"
    /\ f.coll = "detail"
    /\ f.pc = "html"
    /\ LET name == DetailName(site, f.url)
       IN  IF HasName(name)
           THEN /\ CanLock(smu)
                /\ products' = Append(products, [url |-> f.url, name |-> name])
           ELSE products' = products
    /\ fetches' = fetches (-) One(f)
    /\ wgDetail' = DoneDetail(f.coll)
    /\ UNCHANGED <<crawlerVars, basicVars, accessVars>>
    /\ UNCHANGED <<program, site, store, startURL, spc, wgList, visited, smu,
                   transients, retries, failures, detailVisits>>

\* A listing fetch returns after its handlers or after its retry: the
\* deferred wg.Done.
FetchDone(f) ==
    /\ program = "scraper"
    /\ f.pc = "exit"
    /\ fetches' = fetches (-) One(f)
    /\ wgList' = DoneList(f.coll)
    /\ wgDetail' = DoneDetail(f.coll)
    /\ UNCHANGED <<crawlerVars, basicVars, accessVars>>
    /\ UNCHANGED <<program, site, store, startURL, spc, visited, products, smu,
                   transients, retries, failures, detailVisits>>

ScraperNext ==
    \/ ScrapeCall
    \/ ScrapeWaitList
    \/ ScrapeWaitDetail
    \/ \E f \in BagToSet(fetches) : AcquireSlot(f)
    \/ \E f \in BagToSet(fetches) : FetchRespond(f)
    \/ \E f \in BagToSet(fetches) : RetryFetch(f)
    \/ \E f \in BagToSet(fetches) : ProductLock(f)
    \/ \E f \in BagToSet(fetches) : ProductHandler(f)
    \/ \E f \in BagToSet(fetches) : PaginationHandler(f)
    \/ \E f \in BagToSet(fetches) : DetailHandler(f)
    \/ \E f \in BagToSet(fetches) : FetchDone(f)

(***************************************************************************)
(* cleanPrice of main.go.  A string is the sequence of its characters.     *)
(***************************************************************************)
\* The characters of the price texts: one printing character, and the white
\* space characters space, newline, tab and carriage return.
PriceChars == {"$", " ", "\n", "\t", "\r"}

PriceStrings == UNION {[1..n -> PriceChars] : n \in 0..MaxPriceLen}

\* unicode.IsSpace, which strings.TrimSpace cuts by.
IsSpace(c) == c \in {" ", "\n", "\t", "\r"}

RECURSIVE TrimLeftSpace(_)
TrimLeftSpace(s) ==
    IF s # << >> /\ IsSpace(Head(s)) THEN TrimLeftSpace(Tail(s)) ELSE s

RECURSIVE TrimRightSpace(_)
TrimRightSpace(s) ==
    IF s # << >> /\ IsSpace(Last(s)) THEN TrimRightSpace(Front(s)) ELSE s

TrimLeftOnly(s) == TrimLeftSpace(s)

\* strings.TrimSpace(s): all leading and trailing white space removed.
TrimSpace(s) == TrimRightSpace(TrimLeftSpace(s))

\* strings.Contains(s, sub).
Contains(s, sub) ==
    \E i \in 1..(Len(s) - Len(sub) + 1) : SubSeq(s, i, i + Len(sub) - 1) = sub

\* strings.ReplaceAll(s, old, new), old not empty: the non-overlapping
\* occurrences of old, found from the left, are replaced.
RECURSIVE ReplaceAll(_, _, _)
ReplaceAll(s, old, new) ==
    IF Len(s) < Len(old) THEN s
    ELSE IF SubSeq(s, 1, Len(old)) = old
         THEN new \o ReplaceAll(SubSeq(s, Len(old) + 1, Len(s)), old, new)
         ELSE <<Head(s)>> \o ReplaceAll(Tail(s), old, new)

\* The loop of cleanPrice: while the string contains two spaces in a row,
\* every pair of spaces is replaced by one space.
RECURSIVE CollapseSpaces(_)
CollapseSpaces(s) ==
    IF Contains(s, <<" ", " ">>)
    THEN CollapseSpaces(ReplaceAll(s, <<" ", " ">>, <<" ">>))
    ELSE s

cleanPriceNewlinesLast(p) ==
    ReplaceAll(CollapseSpaces(ReplaceAll(TrimSpace(p), <<"\t">>, << >>)),
               <<"\n">>, <<" ">>)

\* cleanPrice(price): trim, newlines to spaces, tabs deleted, runs of spaces
\* collapsed, in this order.
cleanPrice(p) ==
    LET trimmed == TrimSpace(p)
        spaced == ReplaceAll(trimmed, <<"\n">>, <<" ">>)
        untabbed == ReplaceAll(spaced, <<"\t">>, << >>)
    IN  CollapseSpaces(untabbed)

\* A caller hands a string to cleanPrice and keeps the result.
CleanPriceCall ==
    /\ program = "price"
    /\ cleaned < MaxCleanings
    /\ price' = cleanPrice(price)
    /\ cleaned' = cleaned + 1
    /\ UNCHANGED <<program, site, store, raw, exportVars>>
    /\ UNCHANGED <<crawlerVars, scraperVars, accessVars>>
    /\ UNCHANGED <<bpc, bstack, bproducts, bfetched>>

PriceNext == CleanPriceCall

(***************************************************************************)
(* exportToCSV of main.go.  The file is the sequence of the CSV records    *)
(* that reached it; the csv.Writer buffers records (a bufio.Writer) and    *)
(* writes them to the file when the buffer is full and when it is flushed. *)
(***************************************************************************)
\* main's Product; ScrapedAt is the time of the scrape.
Product(n, p, u, i) ==
    [name |-> n, price |-> p, url |-> u, image |-> i, at |-> "now"]

\* The products the callers of exportToCSV pass, other than main's.
TestProducts ==
    {Product("Widget", <<"$">>, Page("/d1"), "widget.png"),
     Product("Gadget", <<"$", " ", "$">>, Page("/d2"), "")}

ProductLists == UNION {[1..n -> TestProducts] : n \in 0..MaxProducts}

\* No file of that name, and a file an earlier export left.
NoFile == [exists |-> FALSE, rows |-> << >>]

NewFile == [exists |-> TRUE, rows |-> << >>]

\* The header record of exportToCSV.
Header == <<"Name", "Price", "URL", "Image", "Scraped At">>

\* time.Time.Format(time.RFC3339): the text of the time.
FormatRFC3339(t) == <<"RFC3339", t>>

\* The record of one product.
Row(p) == <<p.name, p.price, p.url, p.image, FormatRFC3339(p.at)>>

OldFile == [exists |-> TRUE, rows |-> <<Header, Header>>]

\* exportToCSV touches nothing but its file, its writer and its locals.
ExportFrame ==
    /\ UNCHANGED <<program, site, store, priceVars>>
    /\ UNCHANGED <<crawlerVars, scraperVars, accessVars>>
    /\ UNCHANGED <<bpc, bstack, bproducts, bfetched>>

\* os.Create(filename): the file is created or truncated, or the call fails
\* (a directory that does not exist, no permission) and exportToCSV returns
\* the wrapped error.
ExportCreate ==
    /\ program \in {"basic", "export"}
    /\ epc = "create"
    /\ \E ok \in BOOLEAN :
          IF ok
          THEN efile' = NewFile /\ epc' = "header" /\ UNCHANGED eret
          ELSE eret' = "err" /\ epc' = "returned" /\ UNCHANGED efile
    /\ UNCHANGED <<eproducts, eidx, ebuf, werr>>
    /\ ExportFrame

\* writer.Write(record): the record goes to the buffer; a full buffer is
\* written to the file first, and the failure of that write is the error
\* Write returns, on which exportToCSV returns the wrapped error (its
\* deferred calls follow).
WriterWrite(record, onward) ==
    IF Len(ebuf) < BufferRows
    THEN /\ ebuf' = Append(ebuf, record)
         /\ epc' = onward
         /\ UNCHANGED <<efile, werr, eret>>
    ELSE \E ok \in BOOLEAN :
            IF ok
            THEN /\ efile' = [efile EXCEPT !.rows = @ \o ebuf]
                 /\ ebuf' = <<record>>
                 /\ epc' = onward
                 /\ UNCHANGED <<werr, eret>>
            ELSE /\ werr' = TRUE
                 /\ eret' = "err"
                 /\ epc' = "deferred"
                 /\ UNCHANGED <<ebuf, efile>>

\* writer.Write(header).
ExportHeader ==
    /\ program \in {"basic", "export"}
    /\ epc = "header"
    /\ WriterWrite(Header, "rows")
    /\ eidx' = 1
    /\ UNCHANGED eproducts
    /\ ExportFrame

\* One turn of the range loop: writer.Write(row) of the next product.
ExportRow ==
    /\ program \in {"basic", "export"}
    /\ epc = "rows"
    /\ eidx <= Len(eproducts)
    /\ WriterWrite(Row(eproducts[eidx]), "rows")
    /\ eidx' = IF epc' = "rows" THEN eidx + 1 ELSE eidx
    /\ UNCHANGED eproducts
    /\ ExportFrame

\* The loop is over: return nil (the deferred calls follow).
ExportReturnNil ==
    /\ program \in {"basic", "export"}
    /\ epc = "rows"
    /\ eidx > Len(eproducts)
    /\ eret' = "nil"
    /\ epc' = "deferred"
    /\ UNCHANGED <<eproducts, eidx, ebuf, werr, efile>>
    /\ ExportFrame

\* The deferred writer.Flush() and file.Close(): the buffered records are
\* written to the file, or the write fails and the writer records the error,
\* which nobody reads (writer.Error() is not called); the value exportToCSV
\* returns was set before.
ExportDeferred ==
    /\ program \in {"basic", "export"}
    /\ epc = "deferred"
    /\ IF werr \/ ebuf = << >>
       THEN UNCHANGED <<ebuf, werr, efile>>
       ELSE \E ok \in BOOLEAN :
               IF ok
               THEN /\ efile' = [efile EXCEPT !.rows = @ \o ebuf]
                    /\ ebuf' = << >>
                    /\ UNCHANGED werr
               ELSE werr' = TRUE /\ UNCHANGED <<ebuf, efile>>
    /\ epc' = "returned"
    /\ UNCHANGED <<eproducts, eidx, eret>>
    /\ ExportFrame

ExportNext ==
    \/ ExportCreate
    \/ ExportHeader
    \/ ExportRow
    \/ ExportReturnNil
    \/ ExportDeferred

(***************************************************************************)
(* The basic scraper: main of main.go, a synchronous collector that allows *)
(* URL revisits, with depth limit 2.                                       *)
(***************************************************************************)
\* colly.MaxDepth(2) of main.
BasicMaxDepth == 2

\* The start URL of main.
BasicStart == Page("/list1")

\* A variant of main's collector with the depth limit one level deeper.
BasicRefusedDeeper(u, d) ==
    u = << >> \/ DepthExceeded(BasicMaxDepth + 1, d) \/ ~DomainAllowed(u)

\* Collector.scrape of main's collector: AllowURLRevisit, so only the depth
\* and the domain are checked.
BasicRefused(u, d) ==
    u = << >> \/ DepthExceeded(BasicMaxDepth, d) \/ ~DomainAllowed(u)

\* A Visit of main's collector returned.  The pagination handler ignores the
\* result; the start Visit's error makes main exit through log.Fatal.
BasicResume(stack, err) ==
    IF stack = << >>
    THEN [pc |-> IF err = "err" THEN "fatal" ELSE "wait", stack |-> << >>]
    ELSE [pc |-> "html",
          stack |-> Front(stack) \o
                    << [Last(stack) EXCEPT !.idx = Last(stack).idx + 1] >>]

\* c.Visit(start): the first request, at depth 1; OnRequest sets the headers.
MainVisit ==
    /\ program = "basic"
    /\ bpc = "init"
    /\ IF BasicRefused(BasicStart, 1)
       THEN bpc' = "fatal" /\ UNCHANGED <<bstack, bfetched>>
       ELSE /\ bpc' = "http"
            /\ bstack' = <<Frame(BasicStart, 1)>>
            /\ bfetched' = bfetched + 1
    /\ UNCHANGED <<crawlerVars, scraperVars, accessVars, priceVars, exportVars>>
    /\ UNCHANGED <<program, site, store, bproducts>>

\* The transport answers: OnError logs a failure and fetch returns it,
\* OnResponse logs a success and the OnHTML handlers follow.
MainRespond ==
    /\ program = "basic"
    /\ bpc = "http"
    /\ \E outcome \in {"ok", "error"} :
          IF outcome = "ok"
          THEN bpc' = "html" /\ UNCHANGED bstack
          ELSE /\ bpc' = BasicResume(Front(bstack), "err").pc
               /\ bstack' = BasicResume(Front(bstack), "err").stack
    /\ UNCHANGED <<crawlerVars, scraperVars, accessVars, priceVars, exportVars>>
    /\ UNCHANGED <<program, site, store, bproducts, bfetched>>

\* The span.price text of a product element, as the page gives it.
PriceText(name) ==
    CASE name = "Widget" -> <<" ", "$", "\n">>
      [] name = "Gadget" -> <<"$", "\t", "$">>
      [] name = "Gizmo" -> <<"$", " ", " ", "$">>
      [] OTHER -> << >>

\* The src of a product element's image.
ImageSrc(name) == IF name = "" THEN "" ELSE "image.png"

\* The OnHTML("li.product") handler on the next product of the page: a
\* product with a non-empty name is appended.
MainProduct ==
    /\ program = "basic"
    /\ bpc = "html"
    /\ LET f == Last(bstack)
           items == ListingItems(site, f.url)
       IN  /\ f.idx <= Len(items)
           /\ LET product == Product(items[f.idx].name,
                                     cleanPrice(PriceText(items[f.idx].name)),
                                     items[f.idx].href,
                                     ImageSrc(items[f.idx].name))
              IN  bproducts' = IF HasName(product.name)
                               THEN Append(bproducts, product)
                               ELSE bproducts
           /\ bstack' = Front(bstack) \o << [f EXCEPT !.idx = f.idx + 1] >>
    /\ UNCHANGED <<crawlerVars, scraperVars, accessVars, priceVars, exportVars>>
    /\ UNCHANGED <<program, site, store, bpc, bfetched>>

\* The OnHTML("a.next.page-numbers") handler: a non-empty href is visited
\* with e.Request.Visit, one level deeper, on the same goroutine.
MainNextPage ==
    /\ program = "basic"
    /\ bpc = "html"
    /\ LET f == Last(bstack)
           k == f.idx - Len(ListingItems(site, f.url))
           nexts == ListingNext(site, f.url)
       IN  /\ 1 <= k /\ k <= Len(nexts)
           /\ LET u == AbsoluteURL(f.url, nexts[k])
              IN  IF nexts[k] = << >> \/ BasicRefused(u, f.depth + 1)
                  THEN /\ bstack' = BasicResume(bstack, "err").stack
                       /\ UNCHANGED <<bpc, bfetched>>
                  ELSE /\ bstack' = bstack \o <<Frame(u, f.depth + 1)>>
                       /\ bpc' = "http"
                       /\ bfetched' = bfetched + 1
    /\ UNCHANGED <<crawlerVars, scraperVars, accessVars, priceVars, exportVars>>
    /\ UNCHANGED <<program, site, store, bproducts>>

\* Every handler of the page has run: OnScraped logs and fetch returns nil.
MainScraped ==
    /\ program = "basic"
    /\ bpc = "html"
    /\ LET f == Last(bstack)
       IN  f.idx > Len(ListingItems(site, f.url)) + Len(ListingNext(site, f.url))
    /\ bpc' = BasicResume(Front(bstack), "nil").pc
    /\ bstack' = BasicResume(Front(bstack), "nil").stack
    /\ UNCHANGED <<crawlerVars, scraperVars, accessVars, priceVars, exportVars>>
    /\ UNCHANGED <<program, site, store, bproducts, bfetched>>

\* c.Wait() returns (the collector is synchronous) and main calls
\* exportToCSV(products, "products.csv") if there are products.
MainFinish ==
    /\ program = "basic"
    /\ bpc = "wait"
    /\ IF Len(bproducts) > 0
       THEN bpc' = "export" /\ epc' = "create" /\ eproducts' = bproducts
       ELSE bpc' = "empty" /\ UNCHANGED <<epc, eproducts>>
    /\ UNCHANGED <<crawlerVars, scraperVars, accessVars>>
    /\ UNCHANGED <<priceVars, eidx, ebuf, werr, efile, eret>>
    /\ UNCHANGED <<program, site, store, bstack, bproducts, bfetched>>

\* exportToCSV returned: log.Fatal on an error, the success message else.
MainExported ==
    /\ program = "basic"
    /\ bpc = "export"
    /\ epc = "returned"
    /\ bpc' = IF eret = "err" THEN "fatal" ELSE "exported"
    /\ UNCHANGED <<crawlerVars, scraperVars, accessVars>>
    /\ UNCHANGED <<priceVars, exportVars>>
    /\ UNCHANGED <<program, site, store, bstack, bproducts, bfetched>>

BasicNext ==
    \/ MainVisit
    \/ MainRespond
    \/ MainProduct
    \/ MainNextPage
    \/ MainScraped
    \/ MainFinish
    \/ ExportNext
    \/ MainExported

(***************************************************************************)
(* The accessors under the goroutines of the tests: TestGetFoundLinks on a *)
(* WebCrawler whose foundLinks the test sets, and TestScraperConcurrency   *)
(* on a Scraper whose products the test's goroutines append to.            *)
(***************************************************************************)
Goroutines == 1..MaxGoroutines

\* The []string values the test assigns to crawler.foundLinks.
LinkLists == {<<Page("/p1")>>, <<Page("/p1"), Page("/p2"), Page("/p3")>>}

\* The value the test writes into a returned slice.
Modified == <<"modified">>

\* A slice value: its elements, whether it is nil, and whether it shares its
\* backing array with wc.foundLinks.
NilSlice == [elems |-> << >>, isNil |-> TRUE, shared |-> FALSE]

\* A variant of GetFoundLinks that returns wc.foundLinks itself.
AliasOf(list) == [elems |-> list, isNil |-> FALSE, shared |-> TRUE]

\* links := make([]string, len(wc.foundLinks)); copy(links, wc.foundLinks)
CopyOf(list) == [elems |-> list, isNil |-> FALSE, shared |-> FALSE]

\* The test assigns crawler.foundLinks between crawler.mu.Lock() and
\* crawler.mu.Unlock(), before its first GetFoundLinks.
SetFoundLinks ==
    /\ program = "access"
    /\ CanLock(mu)
    /\ gotLinks = NilSlice
    /\ foundLinks = << >>
    /\ foundLinks' \in LinkLists
    /\ UNCHANGED <<scraperVars, basicVars>>
    /\ UNCHANGED <<program, site, store, maxPages, pagesVisited, visitedURLs,
                   mu, callers, thr, discovered, handled, visitCalls,
                   dispatched, workers, gor, got, gotLinks>>

\* GetFoundLinks: under the mutex, a new slice with the elements of
\* wc.foundLinks; the deferred Unlock runs as it returns.
GetFoundLinks ==
    /\ program = "access"
    /\ CanLock(mu)
    /\ gotLinks' = CopyOf(foundLinks)
    /\ UNCHANGED <<crawlerVars, scraperVars, basicVars>>
    /\ UNCHANGED <<program, site, store, workers, gor, got>>

\* The test writes element i of the slice GetFoundLinks returned: the write
\* goes to the slice's backing array.
ModifyLinks ==
    /\ program = "access"
    /\ \E i \in 1..Len(gotLinks.elems) :
          /\ gotLinks.elems[i] # Modified
          /\ gotLinks' = [gotLinks EXCEPT !.elems[i] = Modified]
          /\ foundLinks' = IF gotLinks.shared
                           THEN [foundLinks EXCEPT ![i] = Modified]
                           ELSE foundLinks
    /\ UNCHANGED <<scraperVars, basicVars>>
    /\ UNCHANGED <<program, site, store, maxPages, pagesVisited, visitedURLs,
                   mu, callers, thr, discovered, handled, visitCalls,
                   dispatched, workers, gor, got>>

\* The product goroutine id appends.
TestProduct(id) == [url |-> << >>, name |-> "Product", id |-> id]

\* A goroutine not started by the test.
NoGoroutine == [pc |-> "none", snap |-> << >>]

\* go func(id int): the goroutine is about to lock.
StartedGoroutine == [pc |-> "start", snap |-> << >>]

\* scraper.mu.Lock() of goroutine i.
AppendLock(i) ==
    /\ program = "access"
    /\ gor[i].pc = "start"
    /\ CanLock(smu)
    /\ smu' = i
    /\ gor' = [gor EXCEPT ![i].pc = "locked"]
    /\ UNCHANGED <<crawlerVars, basicVars>>
    /\ UNCHANGED <<program, site, store, startURL, spc, wgList, wgDetail,
                   fetches, visited, products, transients, retries, failures,
                   detailVisits, workers, got, gotLinks>>

\* append(scraper.products, ...), first half: append reads the slice.
AppendRead(i) ==
    /\ program = "access"
    /\ gor[i].pc = "locked"
    /\ gor' = [gor EXCEPT ![i] = [pc |-> "appending", snap |-> products]]
    /\ UNCHANGED <<crawlerVars, scraperVars, basicVars>>
    /\ UNCHANGED <<program, site, store, workers, got, gotLinks>>

\* append, second half: the slice read with the new element is assigned to
\* scraper.products; then scraper.mu.Unlock().
AppendWrite(i) ==
    /\ program = "access"
    /\ gor[i].pc = "appending"
    /\ products' = Append(gor[i].snap, TestProduct(i))
    /\ smu' = 0
    /\ gor' = [gor EXCEPT ![i] = [pc |-> "appended", snap |-> << >>]]
    /\ UNCHANGED <<crawlerVars, basicVars>>
    /\ UNCHANGED <<program, site, store, startURL, spc, wgList, wgDetail,
                   fetches, visited, transients, retries, failures,
                   detailVisits, workers, got, gotLinks>>

\* GetProducts of goroutine i: under the mutex, s.products is returned and
\* the deferred Unlock runs; the goroutine checks it is not nil and ends.
GetProducts(i) ==
    /\ program = "access"
    /\ gor[i].pc = "appended"
    /\ CanLock(smu)
    /\ gor' = [gor EXCEPT ![i].pc = "done"]
    /\ UNCHANGED <<crawlerVars, scraperVars, basicVars>>
    /\ UNCHANGED <<program, site, store, workers, got, gotLinks>>

\* wg.Wait() returned: the test's own GetProducts, whose length it asserts.
FinalGetProducts ==
    /\ program = "access"
    /\ \A i \in 1..workers : gor[i].pc = "done"
    /\ CanLock(smu)
    /\ got' = [called |-> TRUE, list |-> products]
    /\ UNCHANGED <<crawlerVars, scraperVars, basicVars>>
    /\ UNCHANGED <<program, site, store, workers, gor, gotLinks>>

AccessNext ==
    \/ SetFoundLinks
    \/ GetFoundLinks
    \/ ModifyLinks
    \/ \E i \in Goroutines : AppendLock(i)
    \/ \E i \in Goroutines : AppendRead(i)
    \/ \E i \in Goroutines : AppendWrite(i)
    \/ \E i \in Goroutines : GetProducts(i)
    \/ FinalGetProducts

(***************************************************************************)
(* Initial states: a freshly constructed program.                          *)
(***************************************************************************)
\* The maxPages arguments of NewWebCrawler, any int: a negative one too.
MaxPagesInputs == {-1} \cup 0..MaxPagesBound

\* A string url.Parse rejects.
BadURL == <<":", "//site", "/list1">>

\* The startURL arguments of Scrape.
StartURLs == {Page("/list1"), OffSiteLink, BadURL}

Programs == {"crawler", "scraper", "basic", "access", "price", "export"}

\* The sites served to the WebCrawler.
Sites == {1, 2, 3}

\* The sites that several goroutines crawl at once; the site with five
\* links is the budget scenario of one Crawl call.
ConcurrentSites == {1, 3}

\* The shops served to the two scrapers.
Shops == {1, 2}

\* NewWebCrawler: empty map and slice, pagesVisited 0, the given maxPages.
CrawlerInit ==
    /\ pagesVisited = 0
    /\ visitedURLs = {}
    /\ foundLinks = << >>
    /\ mu = 0
    /\ thr = [t \in Threads |-> IdleThread]
    /\ discovered = {}
    /\ handled = [u \in CrawlURLs |-> 0]
    /\ visitCalls = [u \in CrawlURLs |-> 0]
    /\ dispatched = [u \in CrawlURLs |-> 0]

\* NewScraper: empty product list and visited map, nothing in flight.
ScraperInit ==
    /\ spc = "init"
    /\ wgList = 0
    /\ wgDetail = 0
    /\ fetches = EmptyBag
    /\ visited = {}
    /\ products = << >>
    /\ smu = 0
    /\ transients = 0
    /\ retries = [u \in ListURLs |-> 0]
    /\ failures = {}
    /\ detailVisits = [u \in ProductURLs |-> 0]

\* main: an empty products slice.
BasicInit ==
    /\ bpc = "init"
    /\ bstack = << >>
    /\ bproducts = << >>
    /\ bfetched = 0

\* A caller of cleanPrice holds a string.
PriceInit ==
    /\ price = raw
    /\ cleaned = 0

\* A call of exportToCSV begins; nothing is buffered or returned yet.
ExportInit ==
    /\ epc = IF program = "export" THEN "create" ELSE "idle"
    /\ eidx = 0
    /\ ebuf = << >>
    /\ werr = FALSE
    /\ eret = "none"

\* The tests: no slice returned yet, numGoroutines goroutines started.
AccessInit ==
    /\ gor = [i \in Goroutines |->
                IF i <= workers THEN StartedGoroutine ELSE NoGoroutine]
    /\ got = [called |-> FALSE, list |-> << >>]
    /\ gotLinks = NilSlice

\* The inputs of the run: the program, the site served, and the arguments of
\* the program's constructor and entry point (those of the other programs
\* are left at a fixed value).
Init ==
    /\ program \in Programs
    /\ site \in IF program = "crawler" THEN Sites
                ELSE IF program \in {"scraper", "basic"} THEN Shops ELSE {1}
    /\ store = {}
    /\ CrawlerInit
    /\ ScraperInit
    /\ BasicInit
    /\ maxPages \in IF program = "crawler" THEN MaxPagesInputs ELSE {0}
    /\ callers \in IF program = "crawler" /\ site \in ConcurrentSites
                   THEN 1..MaxCallers ELSE {1}
    /\ startURL \in IF program = "scraper" THEN StartURLs
                    ELSE {Page("/list1")}
    /\ workers \in IF program = "access" THEN Goroutines ELSE {1}
    /\ AccessInit
    /\ raw \in IF program = "price" THEN PriceStrings ELSE {<< >>}
    /\ PriceInit
    /\ eproducts \in IF program = "export" THEN ProductLists ELSE {<< >>}
    /\ efile \in IF program \in {"basic", "export"} THEN {NoFile, OldFile}
                 ELSE {NoFile}
    /\ ExportInit

Next ==
    \/ CrawlerNext
    \/ ScraperNext
    \/ BasicNext
    \/ AccessNext
    \/ PriceNext

Spec == Init /\ [][Next]_vars

\* The runs of one program.
CrawlerOnly == Init /\ program = "crawler"

CrawlerSpec == CrawlerOnly /\ [][CrawlerNext]_vars

ScraperOnly == Init /\ program = "scraper"

ScraperSpec == ScraperOnly /\ [][ScraperNext]_vars

BasicOnly == Init /\ program = "basic"

BasicSpec == BasicOnly /\ [][BasicNext]_vars

AccessOnly == Init /\ program = "access"

AccessSpec == AccessOnly /\ [][AccessNext]_vars

PriceOnly == Init /\ program = "price"

PriceSpec == PriceOnly /\ [][PriceNext]_vars

\* The runs of the Scraper in which the server answers 429 or 503 at most
\* MaxCalmTransient times, every goroutine keeps running and every request is
\* answered (the transport answers or times out).
CalmNext == ScraperNext /\ transients' <= MaxCalmTransient

FairCalmScrapeSpec == ScraperOnly /\ [][CalmNext]_vars /\ WF_vars(CalmNext)

\* The runs of main in which the process keeps running, every request is
\* answered and every file operation returns.
FairBasicSpec == BasicOnly /\ [][BasicNext]_vars /\ WF_vars(BasicNext)

ExportOnly == Init /\ program = "export"

ExportSpec == ExportOnly /\ [][ExportNext]_vars

\* The runs of a WebCrawler that one goroutine crawls, in which the
\* goroutine keeps running and every request is answered (the transport
\* answers or times out).
SingleCrawl == CrawlerOnly /\ callers = 1

FairSingleCrawlSpec ==
    SingleCrawl /\ [][CrawlerNext]_vars /\ WF_vars(CrawlerNext)

(***************************************************************************)
(* Properties of the WebCrawler.                                           *)
(***************************************************************************)
\* C1, as the specification states it: every URL a link-handler invocation
\* computed has been inserted into visitedURLs, appended to foundLinks once
\* and handed to Visit once.
C1_EveryDiscoveredAdmitted ==
    \A u \in discovered :
        u \in visitedURLs /\ CountIn(foundLinks, u) = 1 /\ visitCalls[u] = 1

\* C1, amended: however many handler invocations compute the same
\* normalized URL, and on whichever goroutines, at most one of them inserts
\* it into visitedURLs, appends it to foundLinks and calls Visit; exactly one
\* does so as soon as one invocation finds the page budget not exhausted, and
\* none when every invocation finds it exhausted.
C1_AdmittedOnce ==
    \A u \in CrawlURLs :
        /\ CountIn(foundLinks, u) <= 1
        /\ visitCalls[u] = CountIn(foundLinks, u)
        /\ u \in visitedURLs <=> CountIn(foundLinks, u) = 1
        /\ handled[u] >= 1 <=> u \in visitedURLs
        /\ u \in visitedURLs => u \in discovered

\* Two goroutines crawl concurrently (the start page was dispatched twice)
\* and a URL came to the membership test several times, admitted once.
C1_Witness ==
    \E u \in CrawlURLs :
        /\ handled[u] >= 2
        /\ visitCalls[u] = 1
        /\ dispatched[Root] = 2

\* C2: for every maxPages (a count, zero or more) the number of dispatched
\* requests never exceeds maxPages, the start URL's request included, under
\* any interleaving.
C2_BudgetBound == maxPages >= 0 => pagesVisited <= maxPages

\* The start page links to five distinct allowed URLs, none of them the
\* start page, and one goroutine crawls it with maxPages = 3.
C3_StartTargets ==
    {NormalizeURL(AbsoluteURL(Root, SiteLinks(site, Root)[i])) :
        i \in 1..Len(SiteLinks(site, Root))}

C3_Premise ==
    /\ callers = 1
    /\ maxPages = 3
    /\ Len(SiteLinks(site, Root)) = 5
    /\ Cardinality(C3_StartTargets) = 5
    /\ \A u \in C3_StartTargets : DomainAllowed(u) /\ u # Root /\ u # << >>

\* Crawl returned after a crawl whose start page was served.
C3_CrawlServed == thr[1].pc = "returned" /\ thr[1].res = "nil"

\* The requests dispatched for pages other than the start page.
C3_LinkRequests ==
    Cardinality({u \in CrawlURLs \ {Root} : dispatched[u] = 1})

\* C3: a WebCrawler with maxPages = 3, crawled by one goroutine from a start
\* page that links to five distinct URLs, returns from Crawl, and when the
\* start page was served it has dispatched exactly three requests: the start
\* page and two links.
C3_ThreeOfFive ==
    /\ C3_Premise => <>(thr[1].pc = "returned")
    /\ [](C3_Premise /\ C3_CrawlServed =>
            /\ pagesVisited = 3
            /\ dispatched[Root] = 1
            /\ C3_LinkRequests = 2
            /\ \A u \in CrawlURLs : dispatched[u] <= 1)

C3_Witness == C3_Premise /\ C3_CrawlServed /\ pagesVisited = 3

(***************************************************************************)
(* Properties of the Scraper.                                              *)
(***************************************************************************)
\* C4: a listing request that keeps failing with a retryable error is
\* retried at most maxAttempts times and then dropped.
C4_RetriesBounded == \A u \in ListURLs : retries[u] <= MaxAttempts

\* C5: Scrape has returned only in states with no fetch in flight and none
\* waiting in its backoff sleep, on either collector, also after errors; and
\* when it returns the start Visit's error nothing was started.
C5_ReturnsOnlyWhenIdle ==
    spc \in {"returned", "failed"} =>
        fetches = EmptyBag /\ wgList = 0 /\ wgDetail = 0

\* Scrape returned from a run with a retried failure and a scraped product.
C5_Witness == spc = "returned" /\ transients >= 1 /\ Len(products) >= 1

\* The fetches of collector c that are alive.
InFlight(c) == BagCardinality([f \in Live(c) |-> fetches[f]])

\* C6: every fetch alive is counted by its collector's WaitGroup; a listing
\* fetch is registered by Scrape or while a listing fetch is still counted,
\* a detail fetch while a listing fetch is still counted and before the
\* first Wait returned; the first Wait returns on an idle listing collector,
\* after which no fetch is registered; Scrape returns with nothing alive.
C6_RegisteredBeforeCompletion ==
    /\ [](wgList = InFlight("list") /\ wgDetail = InFlight("detail"))
    /\ [][/\ wgList' > wgList => spc = "init" \/ (wgList >= 1 /\ spc = "waitList")
          /\ wgDetail' > wgDetail =>
                wgList >= 1 /\ wgList' >= 1 /\ spc = "waitList"
          /\ spc = "waitList" /\ spc' = "waitDetail" => wgList = 0
          /\ spc \in {"waitDetail", "returned"} =>
                wgList' = 0 /\ wgDetail' <= wgDetail
          /\ spc' = "returned" => fetches' = EmptyBag]_vars

\* The first Wait returned after a retry while detail fetches still run.
C6_Witness ==
    /\ spc = "waitDetail"
    /\ wgDetail >= 1
    /\ \E u \in ListURLs : retries[u] >= 1

(***************************************************************************)
(* Depth limits of the three programs.                                     *)
(***************************************************************************)
\* C7: no request is dispatched at a depth beyond the collector's limit, the
\* start URL being at depth 1: 3 for the WebCrawler, 3 for the Scraper, 2
\* for the basic scraper.
C7_DepthBound ==
    /\ \A t \in Threads : \A i \in 1..Len(thr[t].stack) :
          thr[t].stack[i].depth <= 3
    /\ \A f \in BagToSet(fetches) : f.depth <= 3
    /\ \A i \in 1..Len(bstack) : bstack[i].depth <= 2

\* The Scraper's listing fetch at depth 3 has run its pagination handler:
\* the next page, at depth 4, was refused.
C7_Witness ==
    /\ program = "scraper"
    /\ Page("/list4") \notin store
    /\ \E f \in BagToSet(fetches) :
          f.url = Page("/list3") /\ f.depth = 3 /\ f.pc = "exit"

(***************************************************************************)
(* Link handling of the WebCrawler.                                        *)
(***************************************************************************)
\* A string up to its first "#".
C8_BeforeFragment(u) ==
    SubSeq(u, 1, IF FragmentIndex(u) = 0 THEN Len(u) ELSE FragmentIndex(u) - 1)

C8_Hrefs ==
    { <<"/p1">>, <<"/p1", "#", "a">>, <<"/p1", "#", "b">>, <<"/p2", "#", "a">>,
      Page("/p1") \o <<"#", "c">>, <<"//site", "/p1", "#", "d">> }

\* C8: the normalized URL of a link is its absolute URL up to the fragment,
\* so two links that resolve to the same absolute URL up to the fragment
\* have the same normalized URL; no admitted URL carries a fragment; a
\* linked page is admitted once and fetched at most once.
C8_FragmentNormalized ==
    /\ \A b \in {Root, Page("/p2")} : \A h \in C8_Hrefs :
          NormalizeURL(AbsoluteURL(b, h))
              = C8_BeforeFragment(ResolveReference(b, h))
    /\ \A u \in visitedURLs : FragmentIndex(u) = 0
    /\ \A i \in 1..Len(foundLinks) : FragmentIndex(foundLinks[i]) = 0
    /\ \A u \in CrawlURLs \ {Root} :
          CountIn(foundLinks, u) <= 1 /\ dispatched[u] <= 1

\* One goroutine has handled both /p1#a and /p1#b of the start page: the
\* page /p1 was admitted by the first and fetched once.
C8_Witness ==
    /\ site = 1
    /\ callers = 1
    /\ handled[Page("/p1")] = 2
    /\ dispatched[Page("/p1")] = 1
    /\ CountIn(foundLinks, Page("/p1")) = 1
    /\ thr[1].pc = "html"
    /\ Len(thr[1].stack) = 1
    /\ thr[1].stack[1].idx = 7

\* The link the handler of goroutine t is about to receive.
C9_AtLink(t, link) ==
    /\ thr[t].pc = "html"
    /\ LET f == Last(thr[t].stack)
       IN  /\ f.idx <= Len(SiteLinks(site, f.url))
           /\ SiteLinks(site, f.url)[f.idx] = link

\* C9: a link whose href is empty, starts with "#" or starts with
\* "javascript:" is never added to visitedURLs or foundLinks and causes no
\* request: the handler's step on it changes none of them, calls no Visit
\* and goes on with the next link.
C9_RejectedShapes ==
    /\ [](JsLink \notin visitedURLs /\ CountIn(foundLinks, JsLink) = 0)
    /\ [][\A t \in Threads : \A link \in {EmptyLink, AnchorLink, JsLink} :
            C9_AtLink(t, link) /\ thr'[t] # thr[t] =>
                /\ UNCHANGED <<visitedURLs, foundLinks, pagesVisited, store,
                               dispatched, visitCalls>>
                /\ thr'[t].pc = "html"
                /\ thr'[t].purl = << >>
                /\ Last(thr'[t].stack).idx = Last(thr[t].stack).idx + 1]_vars

\* The handler has gone through the three rejected links of the start page
\* and nothing was admitted.
C9_Witness ==
    /\ site = 1
    /\ \E t \in Threads :
          /\ thr[t].pc = "html"
          /\ Len(thr[t].stack) = 1
          /\ thr[t].stack[1].idx = 4
    /\ visitedURLs = {}
    /\ foundLinks = << >>
    /\ maxPages >= 2

\* C10: a link with a scheme other than http and https, such as mailto:, is
\* never added to visitedURLs or foundLinks and never handed to Visit.
C10_NonHTTPRejected ==
    /\ \A u \in visitedURLs : SchemeOf(u) \in {"http:", "https:"}
    /\ \A i \in 1..Len(foundLinks) : SchemeOf(foundLinks[i]) \in {"http:", "https:"}
    /\ visitCalls[MailLink] = 0

(***************************************************************************)
(* Failure handling of the Scraper and the WebCrawler.                     *)
(***************************************************************************)
\* C11: every fetch of the Scraper that ended with status 429 or 503 is
\* re-issued after the backoff, whichever collector issued it.
C11_TransientRetried ==
    \A x \in failures : x.status \in {429, 503} => x.retried

\* C12: a fetch that failed with a network-level error (no HTTP status) is
\* retried, not dropped.
C12_NetworkErrorRetried ==
    \A x \in failures : x.status = 0 => x.retried

\* The fetch goroutine f was answered with a failure that is not retried:
\* it went from the wire to its end.
C13_Dropped(f) ==
    /\ f.pc = "http"
    /\ fetches' = fetches (-) One(f)

\* C13: a fetch that fails with an HTTP error status other than 429 and 503
\* is never retried and is dropped, and the run goes on.  Scraper: such a
\* failure is not retried, a URL is only retried after a 429 or 503, the
\* step that drops the fetch touches no other fetch, no product and not the
\* Scrape goroutine, and Scrape returns an error only when the start Visit
\* is refused.  WebCrawler: when the fetch of a linked page fails, the link
\* handler that visited it goes on with the next link of its page, nothing
\* else changes, and no linked page is requested again.
C13_FatalIsolated ==
    /\ [](/\ \A x \in failures : x.status = 404 => ~x.retried
          /\ \A u \in ListURLs : retries[u] >= 1 =>
                \E x \in failures : x.url = u /\ x.status \in {429, 503}
          /\ \A u \in CrawlURLs \ {Root} : dispatched[u] <= 1)
    /\ [][/\ \A f \in BagToSet(fetches) : C13_Dropped(f) =>
                UNCHANGED <<spc, products, visited, store, retries>>
          /\ spc' = "failed" => spc = "init"
          /\ \A t \in Threads :
                (/\ thr[t].pc = "http"
                 /\ Len(thr[t].stack) >= 2
                 /\ Len(thr'[t].stack) < Len(thr[t].stack)) =>
                    /\ thr'[t].pc = "html"
                    /\ Len(thr'[t].stack) = Len(thr[t].stack) - 1
                    /\ Last(thr'[t].stack).idx
                          = thr[t].stack[Len(thr[t].stack) - 1].idx + 1
                    /\ UNCHANGED <<visitedURLs, foundLinks, pagesVisited,
                                   dispatched, store>>]_vars

\* Scrape returned nil with a scraped product after a listing page failed
\* with status 404.
C13_Witness ==
    /\ spc = "returned"
    /\ Len(products) >= 1
    /\ \E x \in failures : x.coll = "list" /\ x.status = 404

\* The fetches on the wire.
C14_OnWire == {g \in BagToSet(fetches) : g.pc = "http"}

\* C14: a fetch asleep in its retry backoff holds no slot of the limiter
\* and blocks no other goroutine: while it sleeps, every other fetch on the
\* wire can be answered, every fetch in its handlers can go on, and a
\* queued fetch can be sent as soon as fewer than the rule's Parallelism
\* fetches are on the wire.
C14_BackoffBlocksNothing ==
    \A f \in BagToSet(fetches) : f.pc = "backoff" =>
        /\ \A i \in 1..Len(LimitRules) : f \notin Holders(LimitRules[i])
        /\ \A g \in BagToSet(fetches) :
              /\ g.pc = "http" => ENABLED FetchRespond(g)
              /\ g.pc = "exit" => ENABLED FetchDone(g)
              /\ (g.pc = "html" /\ g.coll = "detail") => ENABLED DetailHandler(g)
              /\ (g.pc = "html" /\ g.coll = "list") =>
                    ENABLED (ProductHandler(g) \/ PaginationHandler(g))
              /\ (/\ g.pc = "queued"
                  /\ BagCardinality([h \in C14_OnWire |-> fetches[h]])
                        < MatchingRule(g).parallelism) => ENABLED AcquireSlot(g)

\* A listing fetch sleeps in its backoff while another fetch is on the wire
\* and a third is queued.
C14_Witness ==
    \E f, g, h \in BagToSet(fetches) :
        f.pc = "backoff" /\ g.pc = "http" /\ h.pc = "queued"

RECURSIVE C16_Sum(_, _)
\* The sum of the counts f[u] over the URLs u of S.
C16_Sum(f, S) ==
    IF S = {} THEN 0
    ELSE LET u == CHOOSE x \in S : TRUE IN f[u] + C16_Sum(f, S \ {u})

\* The goroutines whose step put a request on their call stack.
C16_Dispatching == {t \in Threads : Len(thr'[t].stack) > Len(thr[t].stack)}

\* C16: pagesVisited is the number of requests dispatched so far: every
\* step raises it by the number of requests it dispatches, the request
\* being counted when it is dispatched and before it is answered, and a
\* Visit that is refused dispatches and counts nothing.
C16_CountsDispatches ==
    /\ [](pagesVisited = C16_Sum(dispatched, CrawlURLs))
    /\ [][/\ pagesVisited' = pagesVisited + Cardinality(C16_Dispatching)
          /\ \A t \in C16_Dispatching : thr'[t].pc = "http"
          /\ \A t \in Threads :
                (thr[t].pc \in {"check", "mark"} /\ thr'[t].pc \in {"html", "returned"})
                    => pagesVisited' = pagesVisited]_vars

\* Two goroutines have dispatched the start page, and a Visit of the
\* off-site link was refused without being counted.
C16_Witness ==
    /\ dispatched[Root] = 2
    /\ visitCalls[OffSiteLink] = 1
    /\ OffSiteLink \in store
    /\ pagesVisited = 2

\* C17: with the budget exhausted (pagesVisited >= maxPages) the link
\* handler's step on any link leaves visitedURLs, foundLinks and
\* pagesVisited unchanged and calls no Visit; a request in progress can
\* still be answered; and a Crawl whose start page was scraped returns nil.
C17_ExhaustionFrame ==
    /\ [](\A t \in Threads :
            (pagesVisited >= maxPages /\ thr[t].pc = "http") => ENABLED Respond(t))
    /\ [][\A t \in Threads :
            /\ (/\ pagesVisited >= maxPages
                /\ thr[t].pc = "html"
                /\ thr'[t] # thr[t]
                /\ Last(thr[t].stack).idx
                      <= Len(SiteLinks(site, Last(thr[t].stack).url))) =>
                   /\ UNCHANGED <<visitedURLs, foundLinks, pagesVisited,
                                  visitCalls, store, dispatched>>
                   /\ thr'[t].pc = "html"
                   /\ thr'[t].purl = << >>
            /\ (thr[t].pc = "html" /\ thr'[t].pc = "returned") =>
                   thr'[t].res = "nil"]_vars

\* Crawl returned nil after the handler left a discovered link unadmitted
\* because the budget was exhausted.
C17_Witness ==
    /\ maxPages >= 1
    /\ pagesVisited >= maxPages
    /\ \E u \in discovered : u \notin visitedURLs
    /\ \E t \in Threads : thr[t].pc = "returned" /\ thr[t].res = "nil"

\* C18: once the start URL was requested it is a member of visitedURLs, and
\* a link back to it is never admitted (handed to Visit) again.
C18_StartAdmitted ==
    /\ dispatched[Root] >= 1 => Root \in visitedURLs
    /\ visitCalls[Root] = 0

\* C19: when every Crawl call has returned, every URL inserted into
\* visitedURLs was fetched exactly once.
C19_AdmittedFetchedOnce ==
    (\A t \in 1..callers : thr[t].pc = "returned") =>
        \A u \in visitedURLs : dispatched[u] = 1

(***************************************************************************)
(* Rate limits.                                                            *)
(***************************************************************************)
\* The fetches of collector c that are on the wire.
C20_OnWire(c) ==
    BagCardinality([g \in {h \in Live(c) : h.pc = "http"} |-> fetches[g]])

\* C20: at most 4 fetches of the listing collector, 2 of the detail
\* collector and 2 of the basic scraper are in flight at any moment.
C20_ParallelismBound ==
    /\ C20_OnWire("list") <= 4
    /\ C20_OnWire("detail") <= 2
    /\ (IF bpc = "http" THEN 1 ELSE 0) <= 2

(***************************************************************************)
(* The mutexes and the visited sets.                                       *)
(***************************************************************************)
\* C21: the mutex that guards the visited set is held only for the lookup
\* and insert.  Every path of the WebCrawler link handler and of the Scraper
\* product handler ends with the mutex unlocked, whether it calls Visit or
\* returns; a goroutine that is inside Visit or a fetch, or outside Crawl,
\* does not hold the mutex, so the OnRequest handler of the nested request
\* never waits for its own goroutine; and the holder of either mutex is a
\* handler at the head of its critical section, whose next step releases
\* it.
C21_HeldOnlyForLookup ==
    /\ [](/\ \A t \in Threads :
                mu = t =>
                    /\ thr[t].pc = "html"
                    /\ LET f == Last(thr[t].stack)
                       IN  /\ f.idx <= Len(SiteLinks(site, f.url))
                           /\ ~SkipLink(SiteLinks(site, f.url)[f.idx])
          /\ program = "scraper" =>
                /\ smu = 0 => \A f \in BagToSet(fetches) : f.pc # "locked"
                /\ smu # 0 => \E f \in BagToSet(fetches) :
                                  /\ f.pc = "locked"
                                  /\ fetches[f] = 1
                                  /\ f.idx <= Len(ListingItems(site, f.url))
                                  /\ \A g \in BagToSet(fetches) :
                                        g.pc = "locked" => g = f)
    /\ [][/\ \A t \in Threads :
                /\ thr'[t] # thr[t] => mu' # t
                /\ mu' = t => thr'[t].pc = "html"
          /\ \A f \in BagToSet(fetches) :
                (f.pc = "locked" /\ f \notin BagToSet(fetches')) => smu' = 0]_vars

\* Two goroutines crawl: one waits for the response of a page its link
\* handler visited, after the OnRequest handler of that request counted it,
\* while the link handler of the other holds the mutex.
C21_Witness ==
    \E t \in Threads, u \in Threads :
        /\ thr[t].pc = "http"
        /\ Len(thr[t].stack) >= 2
        /\ visitCalls[Last(thr[t].stack).url] >= 1
        /\ dispatched[Last(thr[t].stack).url] >= 1
        /\ mu = u

\* C22: the visited sets only grow.  No step removes a URL from
\* WebCrawler.visitedURLs or from Scraper.visited (a key of the map is never
\* deleted and its value never set to false).
C22_VisitedOnlyGrow ==
    [][visitedURLs \subseteq visitedURLs' /\ visited \subseteq visited']_vars

\* The link handler inserted a second URL into a visited set that held one.
C22_Witness == Cardinality(visitedURLs) >= 2 \/ Cardinality(visited) >= 2

\* C23: terminal state.  A goroutine whose Crawl returned takes no further
\* step, and once every Crawl call has returned foundLinks, visitedURLs and
\* pagesVisited never change again.  Once Scrape has returned, with nil or
\* with an error, no fetch is alive, products and visited never change
\* again, and Scrape stays returned.
C23_TerminalState ==
    /\ [](spc \in {"returned", "failed"} => fetches = EmptyBag)
    /\ [][/\ \A t \in Threads : thr[t].pc = "returned" => thr'[t] = thr[t]
          /\ (\A t \in 1..callers : thr[t].pc = "returned") =>
                UNCHANGED <<foundLinks, visitedURLs, pagesVisited>>
          /\ spc \in {"returned", "failed"} =>
                UNCHANGED <<spc, products, visited>>]_vars

\* Scrape returned nil after two detail pages gave a product.
C23_Witness == spc = "returned" /\ Len(products) >= 2

(***************************************************************************)
(* Validation and errors.                                                  *)
(***************************************************************************)
\* C24: a crawl configured with an invalid value fails with an error before
\* any fetch is dispatched: with a negative maxPages no request occurs, not
\* even for the start URL, and a Crawl call that returned returned an error.
C24_InvalidConfigFailsFast ==
    maxPages < 0 =>
        /\ \A u \in CrawlURLs : dispatched[u] = 0
        /\ \A t \in Threads : thr[t].pc = "returned" => thr[t].res = "err"

\* The start URL of Scrape does not parse, or the collector refuses it.
C25_BadStart ==
    ParseFails(startURL) \/ startURL = << >> \/ ~DomainAllowed(startURL)

\* C25: Scrape with a start URL that fails to parse or that the collector
\* refuses returns a non-nil error, dispatches no fetch and leaves products
\* and visited unchanged: Scrape is at its first step, which is enabled, or
\* has returned the error, and no fetch was ever registered.
C25_BadStartRejected ==
    (program = "scraper" /\ C25_BadStart) =>
        /\ spc \in {"init", "failed"}
        /\ spc = "init" => ENABLED ScrapeCall
        /\ fetches = EmptyBag
        /\ wgList = 0 /\ wgDetail = 0
        /\ products = << >>
        /\ visited = {}

\* Scrape returned the collector's refusal of a start URL on another host.
C25_Witness == spc = "failed" /\ startURL = OffSiteLink

\* C26: a run accepts a cancellation signal: whenever a Crawl call is in
\* progress the run can be cancelled, that is, a step exists after which the
\* call has returned the cancellation indicator, with the partial result
\* accumulated so far and nothing admitted or dispatched by that step.
C26_Cancellable ==
    \A t \in Threads :
        thr[t].pc \in {"check", "mark", "http", "html"} =>
            ENABLED (/\ CrawlerNext
                     /\ thr'[t].pc = "returned"
                     /\ thr'[t].res = "cancelled"
                     /\ UNCHANGED <<foundLinks, visitedURLs, dispatched>>)

\* The product URLs handed to detailCollector.Visit and dropped by it: the
\* handler's visited map lets a URL through once, and the collector refuses
\* a host outside the allowed domains.
C27_Dropped ==
    {u \in ProductURLs : detailVisits[u] >= 1 /\ ~DomainAllowed(u)}

\* C27: every task that fails or is dropped is recorded with a reason: when
\* Scrape has returned, every fetch that ended in an error has its record
\* and so has every task the collector dropped, so the records number at
\* least the dropped tasks and the failures that were not retried.
C27_FailuresRecorded ==
    spc = "returned" =>
        /\ \A u \in C27_Dropped : \E x \in failures : x.url = u
        /\ Cardinality(failures) >=
              Cardinality(C27_Dropped)
              + Cardinality({x \in failures : ~x.retried})

(***************************************************************************)
(* The accessors.                                                          *)
(***************************************************************************)
\* C28: no lost updates on the product list.  Each of the N goroutines
\* appends one product under Scraper.mu, interleaved with the GetProducts
\* calls of the others; the GetProducts after wg.Wait() returns exactly N
\* products, one of each goroutine, and at any moment the list holds one
\* product of each goroutine that has appended.
C28_NoLostUpdate ==
    /\ got.called =>
          /\ Len(got.list) = workers
          /\ \A i \in 1..workers : CountIn(got.list, TestProduct(i)) = 1
    /\ program = "access" =>
          \A i \in 1..workers :
              CountIn(products, TestProduct(i))
                  = IF gor[i].pc \in {"appended", "done"} THEN 1 ELSE 0

\* The test's last GetProducts returned after at least two goroutines
\* appended.
C28_Witness == got.called /\ workers >= 2 /\ Len(got.list) >= 2

\* C29: GetFoundLinks returns a copy.  The slice returned is not nil, also
\* when there are no links, and holds the elements of foundLinks in order
\* where the caller has not overwritten them; a write to the returned slice
\* leaves foundLinks unchanged, so foundLinks never holds a value the caller
\* wrote and a later GetFoundLinks returns the links again.
C29_ReturnsCopy ==
    /\ [](/\ gotLinks # NilSlice =>
                /\ ~gotLinks.isNil
                /\ Len(gotLinks.elems) = Len(foundLinks)
                /\ \A i \in 1..Len(foundLinks) :
                      gotLinks.elems[i] \in {foundLinks[i], Modified}
          /\ \A i \in 1..Len(foundLinks) : foundLinks[i] # Modified)
    /\ [][/\ ModifyLinks => foundLinks' = foundLinks
          /\ GetFoundLinks => gotLinks'.elems = foundLinks]_vars

\* The caller overwrote an element of the slice returned for a crawler with
\* links.
C29_Witness ==
    /\ foundLinks \in LinkLists
    /\ ~gotLinks.isNil
    /\ \E i \in 1..Len(gotLinks.elems) : gotLinks.elems[i] = Modified

(***************************************************************************)
(* Empty data.                                                             *)
(***************************************************************************)
\* C30: every element of the basic scraper's products and of
\* Scraper.products has a non-empty Name, and a handler step on an element
\* whose name is empty leaves the product list unchanged.
C30_NamesNonEmpty ==
    /\ [](/\ \A i \in 1..Len(bproducts) : bproducts[i].name # ""
          /\ \A i \in 1..Len(products) : products[i].name # "")
    /\ [][/\ (/\ MainProduct
              /\ ListingItems(site, Last(bstack).url)[Last(bstack).idx].name = "")
                => bproducts' = bproducts
          /\ \A f \in BagToSet(fetches) :
                (DetailHandler(f) /\ DetailName(site, f.url) = "")
                    => products' = products]_vars

\* The basic scraper has gone past the element without a name on the first
\* listing page and holds the one product before it.
C30_Witness ==
    /\ site = 1
    /\ bpc = "html"
    /\ Last(bstack).url = Page("/list1")
    /\ Last(bstack).idx = 3
    /\ Len(bproducts) = 1

(***************************************************************************)
(* Properties of exportToCSV.                                              *)
(***************************************************************************)
\* C31: when exportToCSV returns nil for a list of n products, the file
\* holds exactly n + 1 records: the header Name, Price, URL, Image, Scraped
\* At, then one row per product in input order, the fields in that column
\* order.
C31_HeaderThenRows ==
    (epc = "returned" /\ eret = "nil") =>
        /\ Len(efile.rows) = Len(eproducts) + 1
        /\ efile.rows[1] = <<"Name", "Price", "URL", "Image", "Scraped At">>
        /\ \A i \in 1..Len(eproducts) :
              efile.rows[i + 1] =
                  <<eproducts[i].name, eproducts[i].price, eproducts[i].url,
                    eproducts[i].image, FormatRFC3339(eproducts[i].at)>>

\* C32: exportToCSV returns a non-nil error whenever the file could not be
\* created or a write of the header or of a row to the file failed, and it
\* returns nil only if the header and every product row reached the file.
C32_WriteErrorsReported ==
    epc = "returned" =>
        /\ (eidx = 0 \/ werr) => eret = "err"
        /\ eret = "nil" =>
              \A r \in {Header} \cup {Row(eproducts[i]) :
                                       i \in 1..Len(eproducts)} :
                  \E j \in 1..Len(efile.rows) : efile.rows[j] = r

(***************************************************************************)
(* Properties of cleanPrice.                                               *)
(***************************************************************************)
\* The part of a string from its first to its last character that is not
\* white space.
C33_Inner(s) ==
    LET solid == {i \in 1..Len(s) : ~IsSpace(s[i])}
    IN  IF solid = {} THEN << >>
        ELSE SubSeq(s, CHOOSE i \in solid : \A j \in solid : i <= j,
                       CHOOSE i \in solid : \A j \in solid : j <= i)

\* A string without the spaces that follow a space.
RECURSIVE C33_Squeeze(_)
C33_Squeeze(s) ==
    IF Len(s) < 2 THEN s
    ELSE IF s[1] = " " /\ s[2] = " " THEN C33_Squeeze(Tail(s))
    ELSE <<s[1]>> \o C33_Squeeze(Tail(s))

\* What the claim says of the inner characters: tabs deleted, each newline
\* a space, a run of spaces one space.
C33_Expected(s) ==
    LET untabbed == SelectSeq(C33_Inner(s), LAMBDA c : c # "\t")
    IN  C33_Squeeze([i \in 1..Len(untabbed) |->
                        IF untabbed[i] = "\n" THEN " " ELSE untabbed[i]])

\* C33: the result of cleanPrice has no leading or trailing white space, no
\* newline, no tab and no two spaces in a row; inner newlines act as single
\* spaces, inner tabs are deleted, and an input of white space only gives
\* the empty string.
C33_CleanPricePostcondition ==
    (program = "price" /\ cleaned = 1) =>
        /\ price # << >> => ~IsSpace(Head(price)) /\ ~IsSpace(Last(price))
        /\ \A i \in 1..Len(price) : price[i] \notin {"\n", "\t"}
        /\ \A i \in 1..(Len(price) - 1) :
              ~(price[i] = " " /\ price[i + 1] = " ")
        /\ (\A i \in 1..Len(raw) : IsSpace(raw[i])) => price = << >>
        /\ price = C33_Expected(raw)

C33_Witness ==
    /\ program = "price"
    /\ cleaned = 1
    /\ raw = <<"$", "\n", "\t", "$">>
    /\ price = <<"$", " ", "$">>

\* C38: cleanPrice is idempotent: applied to its own result it returns that
\* result unchanged.
C38_Idempotent ==
    [][(program = "price" /\ cleaned >= 1 /\ cleaned' = cleaned + 1)
           => price' = price]_vars

C38_Witness ==
    /\ program = "price"
    /\ cleaned = 2
    /\ raw = <<"$", "\n", "\n", "$">>
    /\ price = <<"$", " ", "$">>

(***************************************************************************)
(* Further properties of the WebCrawler.                                   *)
(***************************************************************************)
\* C34: foundLinks never holds a URL twice and its elements are exactly the
\* keys of visitedURLs; a step changes the two together, and only while a
\* goroutine holds wc.mu, which the step releases.
C34_LinksMatchVisited ==
    /\ [](/\ \A i, j \in 1..Len(foundLinks) :
                foundLinks[i] = foundLinks[j] => i = j
          /\ {foundLinks[i] : i \in 1..Len(foundLinks)} = visitedURLs
          /\ Len(foundLinks) = Cardinality(visitedURLs))
    /\ [][(foundLinks' # foundLinks \/ visitedURLs' # visitedURLs) =>
              /\ foundLinks' # foundLinks
              /\ visitedURLs' # visitedURLs
              /\ mu # 0
              /\ mu' = 0]_vars

C34_Witness ==
    /\ program = "crawler"
    /\ callers = 2
    /\ Len(foundLinks) >= 3
    /\ mu # 0

\* C35: the crawl of one goroutine is depth-first in document order.  The
\* fetch in progress below a page is the fetch of the link that page's
\* handler is at, one level deeper, and the page stays at that link until
\* the fetch and all it triggers have returned; so at the budget check of
\* a link (the handler holds wc.mu) pagesVisited counts every request
\* dispatched so far, which with one caller is every allowed URL in the
\* collector's store.
C35_DepthFirst ==
    /\ [](\A t \in Threads :
            LET stack == thr[t].stack
            IN  /\ \A i \in 1..(Len(stack) - 1) :
                      LET links == SiteLinks(site, stack[i].url)
                      IN  /\ stack[i].idx <= Len(links)
                          /\ stack[i + 1].depth = stack[i].depth + 1
                          /\ stack[i + 1].url =
                                NormalizeURL(AbsoluteURL(stack[i].url,
                                                         links[stack[i].idx]))
                /\ (callers = 1 /\ mu = t /\ thr[t].pc = "html") =>
                      pagesVisited =
                          Cardinality({u \in store : DomainAllowed(u)}))
    /\ [][\A t \in Threads :
            \A i \in 1..(Len(thr[t].stack) - 1) :
                i < Len(thr'[t].stack) => thr'[t].stack[i] = thr[t].stack[i]]_vars

\* The second link of the start page is at its budget check after the page
\* behind the first link, and the page that one links to, were fetched.
C35_Witness ==
    /\ program = "crawler"
    /\ site = 2
    /\ callers = 1
    /\ mu = 1
    /\ Len(thr[1].stack) = 1
    /\ thr[1].stack[1].idx = 2
    /\ dispatched[Page("/p1")] = 1
    /\ dispatched[Page("/p2")] = 1
    /\ pagesVisited = 3

(***************************************************************************)
(* Termination of the two scrapers.                                        *)
(***************************************************************************)
\* C36: when no fetch ends with status 429 or 503, Scrape returns, also on
\* the shop whose pagination links form a cycle; until then no fetch is
\* deeper than the depth limit, the start page is fetched at depth 1 only,
\* and no URL is fetched by two goroutines of one collector.
C36_ScrapeTerminates ==
    /\ [](transients = 0) => <>(spc \in {"returned", "failed"})
    /\ [](transients = 0 =>
            \A f \in BagToSet(fetches) :
                /\ f.depth <= ScraperMaxDepth
                /\ (f.coll = "list" /\ f.url = startURL) => f.depth = 1
                /\ CopiesIn(f, fetches) = 1
                /\ \A g \in BagToSet(fetches) :
                      (g.coll = f.coll /\ g.url = f.url) => g = f)

\* Scrape returned from the shop with the pagination cycle, having fetched
\* both listing pages, without a 429 or 503.
C36_Witness ==
    /\ program = "scraper"
    /\ site = 1
    /\ spc = "returned"
    /\ transients = 0
    /\ Page("/list2") \in store
    /\ Len(products) >= 2

\* C37: main ends (exported, nothing found, or log.Fatal), also on the shop
\* whose next-page links form a cycle: no request is deeper than depth 2,
\* so of a pagination chain the start page and one further page are fetched.
C37_BasicTerminates ==
    /\ <>(bpc \in {"exported", "empty", "fatal"})
    /\ [](/\ \A i \in 1..Len(bstack) : bstack[i].depth <= BasicMaxDepth
          /\ Len(bstack) <= BasicMaxDepth
          /\ bfetched <= BasicMaxDepth)

\* main exported the products of the two pages of the shop with the cycle.
C37_Witness ==
    /\ program = "basic"
    /\ site = 1
    /\ bpc = "exported"
    /\ bfetched = 2
    /\ Len(bproducts) = 4
====
